---- MODULE Spec2Model ----
\* TriDB storage engine (pkg/tridb): the row codec, the trie keydir, the log
\* file with its two handles, the transaction engine and the compactor.
\* The engine modelled is the one of _keydir.go (File, Reader, Writer) over
\* the trie keydir of keydir.go (keydir / keydirNode) and the binary row
\* codec of encoding.go.
EXTENDS Integers, Sequences, FiniteSets, TLC

----------------------------------------------------------------------------
\* Bounds of the model.

\* Number of concurrent callers (goroutines) of one File.
NumProcs == 2

\* Largest number of rows the log may hold; a callback buffers no more rows
\* than still fit.
MaxRows == 2

\* Largest number of rows one write callback buffers.
MaxTxRows == 2

\* Largest number of rows the log holds in the keydir specification.
MaxOps == 3

\* Largest number of rows, the last one possibly cut short, in a file
\* handed to Open in the open specification.
MaxFileRows == 2

----------------------------------------------------------------------------
\* Program constants.

OpSet == 43

OpDelete == 45

MaxKeyLength == 255

HeaderSize == 6

NumChildren == 256

\* Open's bucket count when the caller passes none (file.go, numBuckets <= 0).
NumBuckets == 1

----------------------------------------------------------------------------
\* Inputs: keys, values and rows the callers submit.

\* The empty key, which is a proper prefix of the other key, and a key
\* holding the byte 0xFF.
Keys == { <<>>, <<255>> }

Values == { <<>>, <<49>> }

\* A key one byte longer than MaxKeyLength: Row.Validate rejects it.
LongKey == [i \in 1..(MaxKeyLength + 1) |-> 97]

\* A Go pointer or slice that may be nil: <<>> is nil, <<x>> points to x.
Nil == <<>>

Some(x) == <<x>>

\* Writer.Set: appends a Set row to the buffered rows.
WriterSet(rows, key, value) ==
    Append(rows, [Op |-> OpSet, Key |-> key, Value |-> value])

\* Writer.Delete: appends a Delete row (no value) to the buffered rows.
WriterDelete(rows, key) ==
    Append(rows, [Op |-> OpDelete, Key |-> key, Value |-> <<>>])

----------------------------------------------------------------------------
\* Row codec, binary framing (encoding.go).

\* binary.BigEndian.AppendUint32
BigEndian32(n) ==
    << (n \div 16777216) % 256, (n \div 65536) % 256, (n \div 256) % 256, n % 256 >>

\* binary.BigEndian.Uint32
Uint32(b) ==
    b[1] * 16777216 + b[2] * 65536 + b[3] * 256 + b[4]

\* Row.Validate: the key-length check (the value bound 2^32-1 is not
\* reachable with the values of this model).
Validate(row) ==
    IF Len(row.Key) > MaxKeyLength THEN "ErrKeyTooLong" ELSE "nil"

\* Row.Encode: [bytes, err].
Encode(row) ==
    IF Validate(row) # "nil"
    THEN [bytes |-> <<>>, err |-> Validate(row)]
    ELSE [bytes |-> << row.Op, Len(row.Key) % 256 >> \o BigEndian32(Len(row.Value))
                       \o row.Key \o row.Value,
          err |-> "nil"]

\* io.ReadFull(r, buf) with len(buf) = want over a reader holding `avail`
\* more bytes: [n, err].
ReadFull(avail, want) ==
    IF want = 0 THEN [n |-> 0, err |-> "nil"]
    ELSE IF avail >= want THEN [n |-> want, err |-> "nil"]
    ELSE IF avail = 0 THEN [n |-> 0, err |-> "EOF"]
    ELSE [n |-> avail, err |-> "ErrUnexpectedEOF"]

\* Row.DecodeFrom: decodes one row from the bytes `data` the reader still
\* holds into `row`; [n, err, row], the row mutated only on success.
DecodeFrom(row, data) ==
    LET h == ReadFull(Len(data), HeaderSize) IN
    IF h.err # "nil" THEN [n |-> h.n, err |-> h.err, row |-> row]
    ELSE
    LET klen == data[2]
        k == ReadFull(Len(data) - HeaderSize, klen)
    IN
    IF k.err # "nil" THEN [n |-> h.n + k.n, err |-> k.err, row |-> row]
    ELSE
    LET vlen == Uint32(SubSeq(data, 3, 6))
        v == ReadFull(Len(data) - HeaderSize - klen, vlen)
    IN
    IF v.err # "nil" THEN [n |-> h.n + k.n + v.n, err |-> v.err, row |-> row]
    ELSE [n |-> h.n + k.n + v.n,
          err |-> "nil",
          row |-> [Op |-> data[1],
                   Key |-> SubSeq(data, HeaderSize + 1, HeaderSize + klen),
                   Value |-> SubSeq(data, HeaderSize + klen + 1, HeaderSize + klen + vlen)]]

----------------------------------------------------------------------------
\* Trie keydir (keydir.go, the keydir / keydirNode variant).

\* &keydir{root: &keydirNode{}}: count 0 and a root node without position.
\* `nodes` maps the path of every allocated node to its position pointer.
NewTrieKeydir ==
    [count |-> 0, nodes |-> (<<>> :> Nil)]

\* The nodes on the path from the root to `key`, the root included.
PathNodes(key) ==
    { SubSeq(key, 1, i) : i \in 0..Len(key) }

\* keydir.set that keeps the position a key already has.
KeydirSetKeepsFirst(kd, key, position) ==
    LET grown == [n \in (DOMAIN kd.nodes) \cup PathNodes(key) |->
                    IF n \in DOMAIN kd.nodes THEN kd.nodes[n] ELSE Nil]
    IN [count |-> IF grown[key] = Nil THEN kd.count + 1 ELSE kd.count,
        nodes |-> IF grown[key] = Nil THEN [grown EXCEPT ![key] = Some(position)]
                  ELSE grown]

\* keydir.set: allocates the missing nodes of the path, counts the key when
\* its node held no position, and stores the position.
KeydirSet(kd, key, position) ==
    LET grown == [n \in (DOMAIN kd.nodes) \cup PathNodes(key) |->
                    IF n \in DOMAIN kd.nodes THEN kd.nodes[n] ELSE Nil]
    IN [count |-> IF grown[key] = Nil THEN kd.count + 1 ELSE kd.count,
        nodes |-> [grown EXCEPT ![key] = Some(position)]]

\* keydir.delete: returns early when a node of the path is missing;
\* otherwise decrements count and clears the position.
KeydirDelete(kd, key) ==
    IF key \notin DOMAIN kd.nodes
    THEN kd
    ELSE [count |-> kd.count - 1,
          nodes |-> [kd.nodes EXCEPT ![key] = Nil]]

\* keydir.get: nil when a node of the path is missing, else the position
\* pointer of the key's node.
KeydirGet(kd, key) ==
    IF key \notin DOMAIN kd.nodes THEN Nil ELSE kd.nodes[key]

\* The values of c for which the loop body of keydirNode.walk runs, in
\* order: for c := start; c != end; c = next(c), with start, end = 0, 255
\* forward and 255, 0 in reverse.
WalkLoop(reverse) ==
    LET start == IF reverse THEN NumChildren - 1 ELSE 0
        end == IF reverse THEN 0 ELSE NumChildren - 1
        steps == IF end > start THEN end - start ELSE start - end
    IN [i \in 1..steps |-> IF reverse THEN start - (i - 1) ELSE start + (i - 1)]

\* The loop of a forward walk (reverse = false).
WalkLoopForward ==
    WalkLoop(FALSE)

\* The loop of a reverse walk (reverse = true).
WalkLoopReverse ==
    WalkLoop(TRUE)

RECURSIVE NodeWalk(_, _, _)
RECURSIVE ChildrenWalk(_, _, _, _)

\* keydirNode.walk with a visitor that never fails: the sequence of
\* [key, position] the visitor is invoked with.
NodeWalk(nodes, reverse, prefix) ==
    LET self == IF nodes[prefix] # Nil
                THEN << [key |-> prefix, position |-> nodes[prefix][1]] >>
                ELSE << >>
        children == SelectSeq(IF reverse THEN WalkLoopReverse ELSE WalkLoopForward,
                              LAMBDA c : Append(prefix, c) \in DOMAIN nodes)
    IN self \o ChildrenWalk(nodes, reverse, prefix, children)

\* The loop body of keydirNode.walk over the non-nil children `cs`.
ChildrenWalk(nodes, reverse, prefix, cs) ==
    IF cs = << >> THEN << >>
    ELSE NodeWalk(nodes, reverse, Append(prefix, Head(cs)))
         \o ChildrenWalk(nodes, reverse, prefix, Tail(cs))

\* keydir.walk with a visitor that never fails: descends to the node of the
\* prefix (no visit when it is missing) and walks it.
KeydirWalk(kd, prefix, reverse) ==
    IF prefix \notin DOMAIN kd.nodes THEN << >>
    ELSE NodeWalk(kd.nodes, reverse, prefix)

----------------------------------------------------------------------------
\* Log file and engine state (_keydir.go, type File).

VARIABLES
    files,      \* the directory: "db" and "db.compacting", each nil or the file's bytes
    syncedLen,  \* number of bytes of "db" covered by the last completed fsync
    keydir,     \* File.keydir
    woffset,    \* File.woffset
    handles,    \* File.r and File.w: "open" or "closed"
    mu,         \* File.mu: the writer holding it (0: none; -1: no File, the process died) and the readers holding it
    pc,         \* where each caller is
    local,      \* each caller's local variables (Writer.rows, startOffset, ...)
    ret,        \* the call that returned in the last step, what it returned, and how many rows its callback had buffered
    kv,         \* history: per key, the value of the last committed Set not followed by a committed Delete
    committed,  \* history: the keydir with every write transaction so far applied as a whole or not at all
    hadFatal,   \* history: a call ended with an engine fatal (handleCorruption)
    hadCompact  \* history: a compaction replaced the log

vars ==
    << files, syncedLen, keydir, woffset, handles, mu, pc, local, ret,
       kv, committed, hadFatal, hadCompact >>

\* The callers of the File.
Procs == 1..NumProcs

\* error values: nil is the empty chain, fmt.Errorf("x: %w", err) prepends "x".
NoErr == << >>

Wrap(msg, err) == << msg >> \o err

\* (*os.File).ReadAt(buf, off) with len(buf) = size: the bytes, or an error
\* when the handle is closed or the file ends before off+size.
ReadAt(handle, data, off, size) ==
    IF handle # "open" THEN [bytes |-> << >>, err |-> << "ErrClosed" >>]
    ELSE IF off + size > Len(data) THEN [bytes |-> << >>, err |-> << "EOF" >>]
    ELSE [bytes |-> SubSeq(data, off + 1, off + size), err |-> NoErr]

\* An os.Truncate that reports success and leaves the file as it is.
TruncateNothing(data, size) ==
    data

\* os.Truncate(path, size): cuts the file, or extends it with zero bytes.
Truncate(data, size) ==
    IF size <= Len(data) THEN SubSeq(data, 1, size)
    ELSE data \o [i \in 1..(size - Len(data)) |-> 0]

RECURSIVE OpenLoopSkipsDelete(_, _, _, _)

\* The replay loop of Open without its case for Delete rows.
OpenLoopSkipsDelete(data, off, kd, row) ==
    LET d == DecodeFrom(row, data)
        woff == off + d.n
    IN
    IF d.n = 0 /\ d.err = "EOF"
    THEN [err |-> NoErr, keydir |-> kd, woffset |-> woff]
    ELSE IF d.err # "nil"
    THEN [err |-> Wrap("decode row", << d.err >>), keydir |-> kd, woffset |-> woff]
    ELSE IF d.row.Op = OpSet
    THEN OpenLoopSkipsDelete(SubSeq(data, d.n + 1, Len(data)), woff,
                  KeydirSet(kd, d.row.Key, [Offset |-> woff - d.n, Size |-> d.n]), d.row)
    ELSE OpenLoopSkipsDelete(SubSeq(data, d.n + 1, Len(data)), woff, kd, d.row)

RECURSIVE OpenLoopAcceptsPartialRow(_, _, _, _)

\* The replay loop of Open taking every end of file, in the middle of a row
\* too, for the end of the log.
OpenLoopAcceptsPartialRow(data, off, kd, row) ==
    LET d == DecodeFrom(row, data)
        woff == off + d.n
    IN
    IF d.err \in { "EOF", "ErrUnexpectedEOF" }
    THEN [err |-> NoErr, keydir |-> kd, woffset |-> woff]
    ELSE IF d.row.Op = OpSet
    THEN OpenLoopAcceptsPartialRow(SubSeq(data, d.n + 1, Len(data)), woff,
                  KeydirSet(kd, d.row.Key, [Offset |-> woff - d.n, Size |-> d.n]), d.row)
    ELSE IF d.row.Op = OpDelete
    THEN OpenLoopAcceptsPartialRow(SubSeq(data, d.n + 1, Len(data)), woff,
                  KeydirDelete(kd, d.row.Key), d.row)
    ELSE [err |-> << "unknown row op" >>, keydir |-> kd, woffset |-> woff]

RECURSIVE OpenLoop(_, _, _, _)

\* The replay loop of Open over the bytes `data` not yet decoded:
\* [err, keydir, woffset].
OpenLoop(data, off, kd, row) ==
    LET d == DecodeFrom(row, data)
        woff == off + d.n
    IN
    IF d.n = 0 /\ d.err = "EOF"
    THEN [err |-> NoErr, keydir |-> kd, woffset |-> woff]
    ELSE IF d.err # "nil"
    THEN [err |-> Wrap("decode row", << d.err >>), keydir |-> kd, woffset |-> woff]
    ELSE IF d.row.Op = OpSet
    THEN OpenLoop(SubSeq(data, d.n + 1, Len(data)), woff,
                  KeydirSet(kd, d.row.Key, [Offset |-> woff - d.n, Size |-> d.n]), d.row)
    ELSE IF d.row.Op = OpDelete
    THEN OpenLoop(SubSeq(data, d.n + 1, Len(data)), woff,
                  KeydirDelete(kd, d.row.Key), d.row)
    ELSE [err |-> << "unknown row op" >>, keydir |-> kd, woffset |-> woff]

\* Open's reconstruction of the in-memory state from the log bytes.
Replay(data) ==
    OpenLoop(data, 0, NewTrieKeydir, [Op |-> 0, Key |-> << >>, Value |-> << >>])

\* Reader.readAndDecode: [row, err].
ReadAndDecode(kd, data, handle, position) ==
    LET rd == ReadAt(handle, data, position.Offset, position.Size)
        d == DecodeFrom([Op |-> 0, Key |-> << >>, Value |-> << >>], rd.bytes)
    IN
    IF rd.err # NoErr THEN [row |-> Nil, err |-> Wrap("read row", rd.err)]
    ELSE IF d.err # "nil" THEN [row |-> Nil, err |-> Wrap("decode row", << d.err >>)]
    ELSE [row |-> Some(d.row), err |-> NoErr]

\* Reader.Has
ReaderHas(kd, key) ==
    KeydirGet(kd, key) # Nil

\* Reader.Get: [value, err]; a nil value and no error when the key is not found.
ReaderGet(kd, data, handle, key) ==
    LET position == KeydirGet(kd, key) IN
    IF position = Nil THEN [value |-> Nil, err |-> NoErr]
    ELSE LET r == ReadAndDecode(kd, data, handle, position[1]) IN
         IF r.err # NoErr THEN [value |-> Nil, err |-> r.err]
         ELSE [value |-> Some(r.row[1].Value), err |-> NoErr]

\* Reader.Count
ReaderCount(kd) ==
    kd.count

\* Reader.Walk with a visitor that never fails: the keys visited.
ReaderWalk(kd, prefix, reverse) ==
    LET w == KeydirWalk(kd, prefix, reverse) IN
    [i \in 1..Len(w) |-> w[i].key]

----------------------------------------------------------------------------
\* Callers' inputs and the engine lock.

\* The rows a write callback can buffer through its Writer: every sequence
\* of at most MaxTxRows calls of Writer.Set and Writer.Delete.
RECURSIVE Buffers(_)
Buffers(n) ==
    IF n = 0 THEN { << >> }
    ELSE LET b == Buffers(n - 1) IN
         b \cup { WriterSet(r, k, v) : r \in b, k \in Keys, v \in Values }
           \cup { WriterDelete(r, k) : r \in b, k \in Keys }
           \cup { WriterSet(r, LongKey, << >>) : r \in b }

\* Every buffer of rows a write callback of the model hands to the engine.
TxBuffers ==
    Buffers(MaxTxRows)

\* The longest encoded row of the model's inputs.
MaxRowSize == HeaderSize + 1 + 1

RECURSIVE RowCount(_)
\* Number of complete rows at the head of the log bytes.
RowCount(data) ==
    LET d == DecodeFrom([Op |-> 0, Key |-> << >>, Value |-> << >>], data) IN
    IF d.err # "nil" THEN 0 ELSE 1 + RowCount(SubSeq(data, d.n + 1, Len(data)))

\* The model follows a write callback only while its rows fit the bounds.
\* After a fatal the host restarts the process: until then the model follows
\* the other callers' read transactions and aborted write transactions.
Fits(rows) ==
    /\ RowCount(files.db) + Len(rows) <= MaxRows
    /\ Len(files.db) <= MaxRows * MaxRowSize
    /\ woffset <= MaxRows * MaxRowSize

\* A lock that does not wait for the readers.
CanLockIgnoresReaders(m) ==
    m.writer = 0

\* sync.RWMutex.Lock proceeds when no writer and no reader holds the mutex.
CanLock(m) ==
    m.writer = 0 /\ m.readers = {}

\* sync.RWMutex.RLock proceeds when no writer holds the mutex.
CanRLock(m) ==
    m.writer = 0

\* No call returned in the last step.
NoRet ==
    [op |-> "none", kind |-> "none", err |-> NoErr, rows |-> 0]

\* The values a caller's locals hold outside a call; `reader` tells whether
\* the caller holds a *Reader that a callback of an earlier call stored,
\* `seen` what the read handle of a write callback returned last.
NoLocal ==
    [pre |-> Nil, rows |-> << >>, i |-> 0, startOffset |-> 0, err |-> NoErr,
     cleanKeydir |-> NewTrieKeydir, cleanOffset |-> 0, reader |-> FALSE,
     seen |-> Nil]

\* The engine state a transaction can change.
Snapshot ==
    [files |-> files, keydir |-> keydir, woffset |-> woffset]

\* f.mu.Lock() at the head of ReadWrite, Compact, CopyTo and Close.
Lock(p, next) ==
    /\ pc[p] = "idle"
    /\ CanLock(mu)
    /\ mu' = [mu EXCEPT !.writer = p]
    /\ pc' = [pc EXCEPT ![p] = next]
    /\ local' = [local EXCEPT ![p] = [NoLocal EXCEPT !.pre = Some(Snapshot),
                                                     !.reader = local[p].reader]]
    /\ ret' = NoRet
    /\ UNCHANGED << files, syncedLen, keydir, woffset, handles, 
                    kv, committed, hadFatal, hadCompact >>

\* The end of a call of p with the Unlock at the end of the function in
\* place of the deferred one: a panic skips it.
ReturnUnlocksAtEnd(p, op, kind, err) ==
    /\ mu' = IF kind = "panic" THEN mu ELSE [mu EXCEPT !.writer = 0]
    /\ pc' = [pc EXCEPT ![p] = "idle"]
    /\ local' = [local EXCEPT ![p] = [NoLocal EXCEPT !.reader = local[p].reader]]
    /\ ret' = [op |-> op, kind |-> kind, err |-> err, rows |-> Len(local[p].rows)]

\* The end of a call of p: the deferred f.mu.Unlock() runs, on a return
\* (kind "ok" or "error") as on a panic (kind "panic").
Return(p, op, kind, err) ==
    /\ mu' = [mu EXCEPT !.writer = 0]
    /\ pc' = [pc EXCEPT ![p] = "idle"]
    /\ local' = [local EXCEPT ![p] = [NoLocal EXCEPT !.reader = local[p].reader]]
    /\ ret' = [op |-> op, kind |-> kind, err |-> err, rows |-> Len(local[p].rows)]

\* The history kept for the properties: the committed keydir follows every
\* return of an exclusive operation that is not a fatal.
Commit(newKv) ==
    /\ kv' = newKv
    /\ committed' = keydir'

----------------------------------------------------------------------------
\* File.ReadWrite (_keydir.go).

\* ReadWrite aborting on the sentinel ErrBreak only.
CallbackAbortsOnErrBreak(err) ==
    err = << "ErrBreak" >>

\* if err != nil { return err }: the callback's error aborts the transaction.
CallbackAborts(err) ==
    err # NoErr

\* The commit loop without its check for bytes already written.
BytesWrittenUnchecked(woff, startOffset) ==
    FALSE

\* if f.woffset != startOffset: bytes of this transaction reached the file.
BytesWritten(woff, startOffset) ==
    woff # startOffset

\* The byte counts (*os.File).Write can return for `bytes`: all of them, or
\* fewer together with an error; nothing on a closed handle.
WriteOutcomes(handle, bytes) ==
    IF handle # "open" THEN { 0 } ELSE { Len(bytes), 0, 1 }

\* The results (*os.File).Sync can have: TRUE is success.
SyncOutcomes(handle) ==
    IF handle # "open" THEN { FALSE } ELSE { TRUE, FALSE }

\* A Sync whose error is dropped.
SyncErrorIgnored(synced) ==
    NoErr

\* err = f.w.Sync(): nil when the Sync succeeded.
SyncError(synced) ==
    IF synced THEN NoErr ELSE << "EIO" >>

\* The value of the last Set of each key not followed by a Delete, after
\* the rows are applied in order.
RECURSIVE ApplyRows(_, _)
ApplyRows(m, rows) ==
    IF rows = << >> THEN m
    ELSE ApplyRows([m EXCEPT ![Head(rows).Key] =
                       IF Head(rows).Op = OpSet THEN Some(Head(rows).Value) ELSE Nil],
                   Tail(rows))

\* The commit loop ranging over the buffered rows from the last to the first.
NextRowReversed(rows, i) ==
    rows[Len(rows) - i + 1]

\* for _, row := range w.rows: the row of the i-th iteration.
NextRow(rows, i) ==
    rows[i]

RECURSIVE ReaderKeydirWithBuffer(_, _)
\* A read handle that reads the keydir as the rows buffered on the write
\* handle would leave it.
ReaderKeydirWithBuffer(kd, rows) ==
    IF rows = << >> THEN kd
    ELSE ReaderKeydirWithBuffer(
           IF Head(rows).Op = OpSet
           THEN KeydirSet(kd, Head(rows).Key, [Offset |-> 0, Size |-> 0])
           ELSE KeydirDelete(kd, Head(rows).Key),
           Tail(rows))

\* r, w := &Reader{f: f}, &Writer{}: the keydir that the read handle of a
\* write callback reads once `rows` are buffered on the write handle. The
\* Reader holds the File only and the Writer only appends to w.rows.
ReaderKeydir(kd, rows) ==
    kd

\* What has, get, count and walk on the read handle of a write callback
\* return once `rows` are buffered on the write handle.
CallbackReads(rows) ==
    [has |-> [k \in Keys |-> ReaderHas(ReaderKeydir(keydir, rows), k)],
     get |-> [k \in Keys |-> ReaderGet(ReaderKeydir(keydir, rows), files.db,
                                       handles.r, k)],
     count |-> ReaderCount(ReaderKeydir(keydir, rows)),
     walk |-> ReaderWalk(ReaderKeydir(keydir, rows), << >>, FALSE)]

\* f.mu.Lock() of ReadWrite.
RWLock(p) ==
    Lock(p, "rw_do")

\* err := do(r, w): the callback buffers rows, reads through its read
\* handle and returns nil or an error, or panics (the deferred Unlock runs
\* while the panic unwinds).
RWCallback(p) ==
    /\ pc[p] = "rw_do"
    /\ \E rows \in TxBuffers, out \in { "nil", "ErrBreak", "errCallback", "panic" } :
         /\ Fits(rows)
         /\ hadFatal => (rows = << >> /\ out # "nil")
         /\ IF out = "panic"
            THEN /\ Return(p, "ReadWrite", "panic", << "callback panic" >>)
                 /\ committed' = keydir
            ELSE /\ pc' = [pc EXCEPT ![p] = "rw_called"]
                 /\ local' = [local EXCEPT ![p].rows = rows,
                                           ![p].seen = Some(CallbackReads(rows)),
                                           ![p].i = 1,
                                           ![p].startOffset = woffset,
                                           ![p].err = IF out = "nil" THEN NoErr ELSE << out >>]
                 /\ ret' = NoRet
                 /\ UNCHANGED << mu, committed >>
    /\ UNCHANGED << files, syncedLen, keydir, woffset, handles, kv, hadFatal, hadCompact >>

\* return err // aborts on error
RWAbort(p) ==
    /\ pc[p] = "rw_called"
    /\ CallbackAborts(local[p].err)
    /\ Return(p, "ReadWrite", "error", local[p].err)
    /\ UNCHANGED << files, syncedLen, keydir, woffset, handles, hadFatal, hadCompact >>
    /\ Commit(kv)

\* File.handleCorruption(err, size) called with the file holding `db`:
\* truncates the file at path to size and panics either way. The keydir
\* keeps the updates of the rows written so far: all of the transaction's
\* rows when it is the Sync that failed.
HandleCorruption(p, err, size, db) ==
    \E truncated \in BOOLEAN :
      /\ files' = [files EXCEPT !.db = IF truncated THEN Truncate(db, size) ELSE db]
      /\ syncedLen' = IF truncated /\ size < syncedLen THEN size ELSE syncedLen
      /\ Return(p, "ReadWrite", "panic",
                IF truncated THEN Wrap("memstate corruption", err)
                ELSE Wrap("file corruption", err))
      /\ hadFatal' = TRUE
      /\ committed' = IF local[p].i > Len(local[p].rows) THEN keydir ELSE committed
      /\ UNCHANGED kv

\* The two error exits of the commit loop: handleCorruption when bytes of
\* the transaction were written, else an ordinary return of the error.
CommitFails(p, err, db, woff) ==
    /\ woffset' = woff
    /\ UNCHANGED << keydir, handles, hadCompact >>
    /\ IF BytesWritten(woff, local[p].startOffset)
       THEN HandleCorruption(p, err, local[p].startOffset, db)
       ELSE /\ files' = [files EXCEPT !.db = db]
            /\ Return(p, "ReadWrite", "error", err)
            /\ Commit(kv)
            /\ UNCHANGED << syncedLen, hadFatal >>

\* The keydir update that indexes Delete rows like Set rows.
UpdateMemstateIndexesDelete(kd, row, woff, n) ==
    KeydirSet(kd, row.Key, [Offset |-> woff - n, Size |-> n])

\* The keydir update with the offset after the row in place of its start.
UpdateMemstateEndOffset(kd, row, woff, n) ==
    IF row.Op = OpSet
    THEN KeydirSet(kd, row.Key, [Offset |-> woff, Size |-> n])
    ELSE KeydirDelete(kd, row.Key)

\* The keydir update of one written row (switch row.Op).
UpdateMemstate(kd, row, woff, n) ==
    IF row.Op = OpSet
    THEN KeydirSet(kd, row.Key, [Offset |-> woff - n, Size |-> n])
    ELSE KeydirDelete(kd, row.Key)

\* An offset that counts the rows written instead of their bytes.
AdvanceOffsetByRow(woff, n) ==
    woff + 1

\* f.woffset += n after a Write that returned n.
AdvanceOffset(woff, n) ==
    woff + n

\* One iteration of `for _, row := range w.rows`: encode, write, update.
RWCommitRow(p) ==
    /\ pc[p] = "rw_called"
    /\ ~CallbackAborts(local[p].err)
    /\ local[p].i <= Len(local[p].rows)
    /\ LET row == NextRow(local[p].rows, local[p].i)
           enc == Encode(row)
       IN
       IF enc.err # "nil"
       THEN CommitFails(p, Wrap("encode", << enc.err >>), files.db, woffset)
       ELSE \E n \in WriteOutcomes(handles.w, enc.bytes) :
              LET db == files.db \o SubSeq(enc.bytes, 1, n)
                  woff == AdvanceOffset(woffset, n)
              IN
              IF n < Len(enc.bytes)
              THEN CommitFails(p, Wrap("write", << "EIO" >>), db, woff)
              ELSE /\ files' = [files EXCEPT !.db = db]
                   /\ woffset' = woff
                   /\ keydir' = UpdateMemstate(keydir, row, woff, n)
                   /\ local' = [local EXCEPT ![p].i = @ + 1]
                   /\ ret' = NoRet
                   /\ UNCHANGED << syncedLen, handles, mu, pc, 
                                   kv, committed, hadFatal, hadCompact >>

\* err = f.w.Sync() after the last row, then return nil; a failed Sync goes
\* to handleCorruption.
RWSync(p) ==
    /\ pc[p] = "rw_called"
    /\ ~CallbackAborts(local[p].err)
    /\ local[p].i > Len(local[p].rows)
    /\ UNCHANGED << keydir, woffset, handles, hadCompact >>
    /\ \E synced \in SyncOutcomes(handles.w) :
         LET err == SyncError(synced) IN
         IF err = NoErr
         THEN /\ syncedLen' = IF synced THEN Len(files.db) ELSE syncedLen
              /\ Return(p, "ReadWrite", "ok", NoErr)
              /\ UNCHANGED << files, hadFatal >>
              /\ Commit(ApplyRows(kv, local[p].rows))
         ELSE HandleCorruption(p, Wrap("sync", err), local[p].startOffset, files.db)

----------------------------------------------------------------------------
\* File.Read (_keydir.go).

\* f.mu.RLock()
ReadLock(p) ==
    /\ pc[p] = "idle"
    /\ CanRLock(mu)
    /\ mu' = [mu EXCEPT !.readers = @ \cup {p}]
    /\ pc' = [pc EXCEPT ![p] = "rd_do"]
    /\ ret' = NoRet
    /\ UNCHANGED << files, syncedLen, keydir, woffset, handles, local, 
                    kv, committed, hadFatal, hadCompact >>

\* return do(r): the callback reads through its Reader while pc is "rd_do";
\* here it returns nil or an error, or panics, and the deferred RUnlock runs.
ReadReturn(p) ==
    /\ pc[p] = "rd_do"
    /\ \E out \in { "nil", "ErrBreak", "panic" } :
         ret' = [op |-> "Read",
                 kind |-> IF out = "nil" THEN "ok" ELSE IF out = "panic" THEN "panic" ELSE "error",
                 err |-> IF out = "nil" THEN NoErr ELSE << out >>,
                 rows |-> 0]
    /\ mu' = [mu EXCEPT !.readers = @ \ {p}]
    /\ pc' = [pc EXCEPT ![p] = "idle"]
    /\ UNCHANGED << files, syncedLen, keydir, woffset, handles, local,
                    kv, committed, hadFatal, hadCompact >>

----------------------------------------------------------------------------
\* File.Compact (_keydir.go).

\* f.mu.Lock() of Compact. The model follows no compaction after a fatal.
CompactLock(p) ==
    ~hadFatal /\ Lock(p, "cp_init")

\* An error return of Compact that comes after the swap of keydir and offset.
CompactFailsAfterSwap(p, err) ==
    /\ keydir' = local[p].cleanKeydir
    /\ woffset' = local[p].cleanOffset
    /\ UNCHANGED << syncedLen, hadFatal, hadCompact >>
    /\ Return(p, "Compact", "error", err)
    /\ Commit(kv)

\* An ordinary error return of Compact: the in-memory state stays.
CompactFails(p, err) ==
    /\ UNCHANGED << syncedLen, keydir, woffset, hadFatal, hadCompact >>
    /\ Return(p, "Compact", "error", err)
    /\ Commit(kv)

\* EnsureNoCompactingFile, then openFileRW(path + ".compacting") and the
\* empty clean keydir and offset.
CompactInit(p) ==
    /\ pc[p] = "cp_init"
    /\ \E removed \in BOOLEAN, opened \in BOOLEAN :
         IF ~removed
         THEN /\ UNCHANGED << files, handles >>
              /\ CompactFails(p, Wrap("ensure no compacting file", << "EPERM" >>))
         ELSE IF ~opened
         THEN /\ files' = [files EXCEPT !.compacting = Nil]
              /\ CompactFails(p, Wrap("open new datafile", << "EMFILE" >>))
              /\ UNCHANGED handles
         ELSE /\ files' = [files EXCEPT !.compacting = Some(<< >>)]
              /\ pc' = [pc EXCEPT ![p] = "cp_walk"]
              /\ local' = [local EXCEPT ![p].cleanKeydir = NewTrieKeydir,
                                        ![p].cleanOffset = 0,
                                        ![p].i = 1]
              /\ ret' = NoRet
              /\ UNCHANGED << syncedLen, keydir, woffset, handles, mu, 
                              kv, committed, hadFatal, hadCompact >>

\* One invocation of the visitor given to f.keydir.Walk(nil, ...): read the
\* row at its position through f.r, append it to the new file, index it.
CompactRow(p) ==
    /\ pc[p] = "cp_walk"
    /\ LET walk == KeydirWalk(keydir, << >>, FALSE) IN
       /\ local[p].i <= Len(walk)
       /\ LET key == walk[local[p].i].key
              position == walk[local[p].i].position
              rd == ReadAt(handles.r, files.db, position.Offset, position.Size)
          IN
          IF rd.err # NoErr
          THEN /\ UNCHANGED << files, handles >>
               /\ CompactFails(p, Wrap("walk rows", Wrap("read current row", rd.err)))
          ELSE \E n \in WriteOutcomes("open", rd.bytes) :
                 /\ files' = [files EXCEPT !.compacting =
                                 Some(@[1] \o SubSeq(rd.bytes, 1, n))]
                 /\ IF n < Len(rd.bytes)
                    THEN /\ CompactFails(p, Wrap("walk rows", Wrap("write new row", << "EIO" >>)))
                         /\ UNCHANGED handles
                    ELSE /\ local' = [local EXCEPT
                                ![p].cleanOffset = @ + n,
                                ![p].cleanKeydir = KeydirSet(@, key,
                                    [Offset |-> local[p].cleanOffset + n - n, Size |-> n]),
                                ![p].i = @ + 1]
                         /\ ret' = NoRet
                         /\ UNCHANGED << syncedLen, keydir, woffset, handles, mu, pc, 
                                         kv, committed, hadFatal, hadCompact >>

\* err = cleanW.Sync()
CompactSync(p) ==
    /\ pc[p] = "cp_walk"
    /\ local[p].i > Len(KeydirWalk(keydir, << >>, FALSE))
    /\ \E synced \in BOOLEAN :
         IF synced
         THEN /\ pc' = [pc EXCEPT ![p] = "cp_close"]
              /\ ret' = NoRet
              /\ UNCHANGED << files, syncedLen, keydir, woffset, handles, mu, local, 
                              kv, committed, hadFatal, hadCompact >>
         ELSE /\ UNCHANGED << files, handles >>
              /\ CompactFails(p, Wrap("sync", << "EIO" >>))

\* closeFileRW(r, w): both handles are closed whatever Close returns; an
\* error when either Close fails (always so on a handle already closed).
CloseFileRW(h) ==
    { [handles |-> [r |-> "closed", w |-> "closed"], ok |-> ok] :
        ok \in IF h.r = "open" /\ h.w = "open" THEN BOOLEAN ELSE { FALSE } }

\* err = closeFileRW(f.r, f.w)
CompactClose(p) ==
    /\ pc[p] = "cp_close"
    /\ \E c \in CloseFileRW(handles) :
         /\ handles' = c.handles
         /\ IF c.ok
            THEN /\ pc' = [pc EXCEPT ![p] = "cp_rename"]
                 /\ ret' = NoRet
                 /\ UNCHANGED << files, syncedLen, keydir, woffset, mu, local, 
                                 kv, committed, hadFatal, hadCompact >>
            ELSE /\ UNCHANGED files
                 /\ CompactFails(p, Wrap("close old file", << "EIO" >>))

\* err = os.Rename(cleanR.Name(), f.fpath), then the swap of keydir,
\* handles and offset.
CompactRename(p) ==
    /\ pc[p] = "cp_rename"
    /\ \E renamed \in BOOLEAN :
         IF renamed
         THEN /\ files' = [db |-> files.compacting[1], compacting |-> Nil]
              /\ syncedLen' = Len(files.compacting[1])
              /\ keydir' = local[p].cleanKeydir
              /\ handles' = [r |-> "open", w |-> "open"]
              /\ woffset' = local[p].cleanOffset
              /\ hadCompact' = TRUE
              /\ Return(p, "Compact", "ok", NoErr)
              /\ Commit(kv)
              /\ UNCHANGED hadFatal
         ELSE /\ UNCHANGED << files, handles >>
              /\ CompactFails(p, Wrap("swap", << "EIO" >>))

----------------------------------------------------------------------------
\* File.Close, File.CopyTo and Open (_keydir.go).

\* f.mu.Lock() of Close. The model follows no Close after a fatal.
CloseLock(p) ==
    ~hadFatal /\ Lock(p, "cl_do")

\* return closeFileRW(f.r, f.w)
CloseDo(p) ==
    /\ pc[p] = "cl_do"
    /\ \E c \in CloseFileRW(handles) :
         /\ handles' = c.handles
         /\ Return(p, "Close", IF c.ok THEN "ok" ELSE "error",
                   IF c.ok THEN NoErr ELSE << "close file (r/w)" >>)
    /\ UNCHANGED << files, syncedLen, keydir, woffset, hadFatal, hadCompact >>
    /\ Commit(kv)

\* f.mu.Lock() of CopyTo.
CopyLock(p) ==
    Lock(p, "ct_do")

\* f.r.Seek(0, io.SeekStart); n, err := io.Copy(dst, f.r)
CopyDo(p) ==
    /\ pc[p] = "ct_do"
    /\ Return(p, "CopyTo", IF handles.r = "open" THEN "ok" ELSE "error",
              IF handles.r = "open" THEN NoErr ELSE << "ErrClosed" >>)
    /\ UNCHANGED << files, syncedLen, keydir, woffset, handles, hadFatal, hadCompact >>
    /\ Commit(kv)

\* Open(path, nil) of the same path once the File's handles are closed
\* (after Close or a failed Compact), with no call in progress: removes
\* "db.compacting", opens the handles and replays the log into a new File
\* (with a new mutex). When the replay fails Open returns no File.
Open ==
    /\ \A p \in Procs : pc[p] = "idle"
    /\ handles.r = "closed"
    /\ files' = [files EXCEPT !.compacting = Nil]
    /\ LET o == Replay(files.db) IN
       IF o.err = NoErr
       THEN /\ keydir' = o.keydir
            /\ woffset' = o.woffset
            /\ handles' = [r |-> "open", w |-> "open"]
            /\ committed' = o.keydir
            /\ mu' = [writer |-> 0, readers |-> {}]
       ELSE UNCHANGED << keydir, woffset, handles, committed, mu >>
    /\ ret' = NoRet
    /\ UNCHANGED << syncedLen, pc, local, kv, hadFatal, hadCompact >>

----------------------------------------------------------------------------
\* The state machine.

\* Open of a path that does not exist: an empty log, an empty keydir, both
\* handles open, nobody inside.
Init ==
    /\ files = [db |-> << >>, compacting |-> Nil]
    /\ syncedLen = 0
    /\ keydir = NewTrieKeydir
    /\ woffset = 0
    /\ handles = [r |-> "open", w |-> "open"]
    /\ mu = [writer |-> 0, readers |-> {}]
    /\ pc = [p \in Procs |-> "idle"]
    /\ local = [p \in Procs |-> NoLocal]
    /\ ret = NoRet
    /\ kv = [k \in Keys |-> Nil]
    /\ committed = NewTrieKeydir
    /\ hadFatal = FALSE
    /\ hadCompact = FALSE

Next ==
    \/ \E p \in Procs : RWLock(p)
    \/ \E p \in Procs : RWCallback(p)
    \/ \E p \in Procs : RWAbort(p)
    \/ \E p \in Procs : RWCommitRow(p)
    \/ \E p \in Procs : RWSync(p)
    \/ \E p \in Procs : ReadLock(p)
    \/ \E p \in Procs : ReadReturn(p)
    \/ \E p \in Procs : CompactLock(p)
    \/ \E p \in Procs : CompactInit(p)
    \/ \E p \in Procs : CompactRow(p)
    \/ \E p \in Procs : CompactSync(p)
    \/ \E p \in Procs : CompactClose(p)
    \/ \E p \in Procs : CompactRename(p)
    \/ \E p \in Procs : CloseLock(p)
    \/ \E p \in Procs : CloseDo(p)
    \/ \E p \in Procs : CopyLock(p)
    \/ \E p \in Procs : CopyDo(p)
    \/ Open

Spec ==
    Init /\ [][Next]_vars

\* The process dies while p is inside Compact, at any step of it: before or
\* after the new file is created, between two rows, after the Sync, after
\* the old handles are closed, or right after os.Rename. The files stay as
\* they are on disk, the handles die with the process and there is no File
\* to call (mu.writer = -1) until Open makes a new one; the state the
\* compaction was started in is remembered in ret.
Crash(p) ==
    /\ pc[p] \in { "cp_init", "cp_walk", "cp_close", "cp_rename" }
    /\ ~hadFatal
    /\ \E renamed \in (IF pc[p] = "cp_rename" THEN BOOLEAN ELSE { FALSE }) :
         files' = IF renamed THEN [db |-> files.compacting[1], compacting |-> Nil]
                  ELSE files
    /\ handles' = [r |-> "closed", w |-> "closed"]
    /\ mu' = [writer |-> -1, readers |-> {}]
    /\ pc' = [q \in Procs |-> "idle"]
    /\ local' = [q \in Procs |-> NoLocal]
    /\ ret' = [op |-> "Crash", kind |-> "crash", err |-> NoErr, rows |-> 0,
               pre |-> local[p].pre[1]]
    /\ UNCHANGED << syncedLen, keydir, woffset, kv, committed, hadFatal, hadCompact >>

\* The engine with crashes of the process during a compaction.
NextCrash ==
    \/ Next
    \/ \E p \in Procs : Crash(p)

SpecCrash ==
    Init /\ [][NextCrash]_vars

----------------------------------------------------------------------------
\* Properties of the engine.

\* The Set row of key and value, as Writer.Set buffers it.
SetRow(key, value) ==
    [Op |-> OpSet, Key |-> key, Value |-> value]

\* The Delete row of key, as Writer.Delete buffers it.
DeleteRow(key) ==
    [Op |-> OpDelete, Key |-> key, Value |-> << >>]

\* A caller is inside a read transaction.
Reading(p) ==
    pc[p] = "rd_do"

\* A caller is inside a write transaction, a compaction, CopyTo or Close.
Exclusive(p) ==
    pc[p] \in { "rw_do", "rw_called", "cp_init", "cp_walk", "cp_close",
                "cp_rename", "cl_do", "ct_do" }

\* A caller is inside a write transaction.
Writing(p) ==
    pc[p] \in { "rw_do", "rw_called" }

\* The state a caller locked the engine in.
Pre(p) ==
    local[p].pre[1]

\* C1 (last-write-wins): in every read transaction that follows only
\* write transactions (no fatal, no compaction) on open handles, get(k)
\* returns the value of the last committed Set of k when no committed Delete
\* of k follows it, and has(k) is true; otherwise get(k) returns absent with no
\* error and has(k) is false.
LastWriteWins ==
    \A p \in Procs :
      (Reading(p) /\ ~hadFatal /\ ~hadCompact /\ handles.r = "open") =>
        \A k \in Keys :
          /\ ReaderGet(keydir, files.db, handles.r, k) = [value |-> kv[k], err |-> NoErr]
          /\ ReaderHas(keydir, k) = (kv[k] # Nil)

\* A reader is inside after two write transactions or one set the empty key
\* to "" and then to "1", and nothing else happened to the log.
LastWriteWinsWitness ==
    /\ \E p \in Procs : Reading(p)
    /\ ~hadFatal /\ ~hadCompact /\ handles.r = "open"
    /\ files.db = Encode(SetRow(<< >>, << >>)).bytes \o Encode(SetRow(<< >>, << 49 >>)).bytes
    /\ kv[<< >>] = Some(<< 49 >>)

\* C2 (write atomicity on ordinary error): whenever ReadWrite returns an
\* error, the files, the keydir and the write offset are what they were when
\* the transaction locked the engine, and get of every key returns what it
\* returned then.
WriteAtomicity ==
    [][\A p \in Procs :
         (Writing(p) /\ ret'.op = "ReadWrite" /\ ret'.kind = "error") =>
           /\ files' = Pre(p).files
           /\ keydir' = Pre(p).keydir
           /\ woffset' = Pre(p).woffset
           /\ \A k \in Keys :
                ReaderGet(keydir', files'.db, handles'.r, k)
                  = ReaderGet(Pre(p).keydir, Pre(p).files.db, handles.r, k)]_vars

\* ReadWrite returned the error of a failed Write of its only row, over a
\* log that holds a row already.
WriteAtomicityWitness ==
    /\ ret.op = "ReadWrite" /\ ret.kind = "error"
    /\ ret.err = << "write", "EIO" >>
    /\ ret.rows = 1
    /\ handles.w = "open"
    /\ files.db # << >>

\* C3 (callback abort): once the callback has returned a non-nil error, the
\* next step is the return of ReadWrite with exactly that error; the files,
\* the fsynced length, the keydir and the write offset are those the
\* transaction locked the engine in, and stay so.
CallbackAbort ==
    [][\A p \in Procs :
         (pc[p] = "rw_called" /\ local[p].err # NoErr) =>
           /\ ret'.op = "ReadWrite" /\ ret'.kind = "error"
           /\ ret'.err = local[p].err
           /\ pc'[p] = "idle"
           /\ << files, keydir, woffset >> = << Pre(p).files, Pre(p).keydir, Pre(p).woffset >>
           /\ UNCHANGED << files, syncedLen, keydir, woffset >>]_vars

\* ReadWrite returned ErrBreak, the error of a callback that had buffered
\* two rows.
CallbackAbortWitness ==
    /\ ret.op = "ReadWrite" /\ ret.kind = "error"
    /\ ret.err = << "ErrBreak" >>
    /\ ret.rows = 2

RECURSIVE LogRows(_, _)
\* The rows of the log bytes `data`, which start at offset off, each with
\* the position it is encoded at.
LogRows(data, off) ==
    LET d == DecodeFrom([Op |-> 0, Key |-> << >>, Value |-> << >>], data) IN
    IF d.err # "nil" THEN << >>
    ELSE << [row |-> d.row, position |-> [Offset |-> off, Size |-> d.n]] >>
         \o LogRows(SubSeq(data, d.n + 1, Len(data)), off + d.n)

\* The position of the most recent of the rows with key k when that row is
\* a Set; nil when it is a Delete or there is none.
MostRecent(rows, k) ==
    LET idx == { i \in 1..Len(rows) : rows[i].row.Key = k } IN
    IF idx = {} THEN Nil
    ELSE LET last == CHOOSE i \in idx : \A j \in idx : j <= i IN
         IF rows[last].row.Op = OpSet THEN Some(rows[last].position) ELSE Nil

\* C4 (replay correspondence): as long as no transaction ended in a fatal,
\* the keydir holds key K with position P if and only if the most recent row
\* of the log with key K is a Set row encoded at P; K is absent when that row
\* is a Delete.
ReplayCorrespondence ==
    ~hadFatal =>
      \A k \in Keys \cup DOMAIN keydir.nodes :
        KeydirGet(keydir, k) = MostRecent(LogRows(files.db, 0), k)

\* The log holds a Set of key 0xFF and then a Set of the empty key, and the
\* keydir has the empty key at the second row.
ReplayCorrespondenceWitness ==
    /\ ~hadFatal
    /\ files.db = Encode(SetRow(<< 255 >>, << >>)).bytes \o Encode(SetRow(<< >>, << 49 >>)).bytes
    /\ KeydirGet(keydir, << >>) = Some([Offset |-> 7, Size |-> 7])
    /\ KeydirGet(keydir, << 255 >>) = Some([Offset |-> 0, Size |-> 7])

\* The live keys of a keydir, each with its position.
LiveKeys(kd) ==
    [k \in { n \in DOMAIN kd.nodes : kd.nodes[n] # Nil } |-> kd.nodes[k][1]]

\* C5 (replay idempotence): when Open follows Close with no fatal before,
\* the keydir it rebuilds has the live keys, the positions and the count of
\* the in-memory keydir at Close, and the write offset is the same.
ReplayIdempotence ==
    [][((\A p \in Procs : pc[p] = "idle") /\ ~hadFatal
          /\ handles.r = "closed" /\ handles'.r = "open") =>
         /\ LiveKeys(keydir') = LiveKeys(keydir)
         /\ ReaderCount(keydir') = ReaderCount(keydir)
         /\ woffset' = woffset]_vars

\* Open has just replayed a log holding a Set of the empty key, which is
\* live, and a Delete.
ReplayIdempotenceWitness ==
    /\ \A p \in Procs : pc[p] = "idle"
    /\ ret = NoRet /\ ~hadFatal /\ handles.r = "open"
    /\ RowCount(files.db) = 2
    /\ DOMAIN LiveKeys(keydir) = { << >> }
    /\ \E i \in 1..2 : LogRows(files.db, 0)[i].row.Op = OpDelete

RECURSIVE EncodeAll(_)
\* The encodings of the rows, one after the other.
EncodeAll(rows) ==
    IF rows = << >> THEN << >>
    ELSE Encode(Head(rows)).bytes \o EncodeAll(Tail(rows))

\* C6 (commit ordering and durability): when ReadWrite returns success the
\* log is the log the transaction locked the engine in followed by the
\* encodings of its rows in the order the callback buffered them, and the
\* last completed fsync covers all of it.
CommitOrder ==
    [][\A p \in Procs :
         (Writing(p) /\ ret'.op = "ReadWrite" /\ ret'.kind = "ok") =>
           /\ files'.db = Pre(p).files.db \o EncodeAll(local[p].rows)
           /\ syncedLen' = Len(files'.db)]_vars

\* ReadWrite returned success for a transaction of two different rows.
CommitOrderWitness ==
    /\ ret.op = "ReadWrite" /\ ret.kind = "ok" /\ ret.rows = 2
    /\ files.db = Encode(SetRow(<< >>, << 49 >>)).bytes \o Encode(DeleteRow(<< 255 >>)).bytes
    /\ syncedLen = Len(files.db)

\* C7 (mutual exclusion): while a caller is inside a write transaction, a
\* compaction, CopyTo or Close, no other caller is inside any of them nor
\* inside a read transaction.
MutualExclusion ==
    \A p \in Procs, q \in Procs :
      (p # q /\ Exclusive(p)) => (~Exclusive(q) /\ ~Reading(q))

\* Two read transactions are in progress at once.
MutualExclusionWitness ==
    \E p \in Procs, q \in Procs : p # q /\ Reading(p) /\ Reading(q)

\* C8 (isolation of reads), as the specification states it: what a read
\* callback observes (has, count, walk) is the keydir with every write
\* transaction applied as a whole or not at all.
ReadIsolation ==
    \A p \in Procs :
      Reading(p) =>
        /\ \A k \in Keys : ReaderHas(keydir, k) = ReaderHas(committed, k)
        /\ ReaderCount(keydir) = ReaderCount(committed)
        /\ \A r \in BOOLEAN : ReaderWalk(keydir, << >>, r) = ReaderWalk(committed, << >>, r)

\* C9 (lock release on every exit path): a caller that is not inside a call
\* holds the engine lock neither as the writer nor as a reader, so that the
\* lock is free whenever nobody is inside.
LockReleased ==
    /\ \A p \in Procs : pc[p] = "idle" => (mu.writer # p /\ p \notin mu.readers)
    /\ mu.writer # 0 => Exclusive(mu.writer)
    /\ (\A p \in Procs : pc[p] = "idle") => (CanLock(mu) /\ CanRLock(mu))

\* After a write transaction ended in a fatal, another call holds the
\* exclusive lock.
LockReleasedWitness ==
    /\ hadFatal
    /\ \E p \in Procs : pc[p] = "rw_do" /\ mu.writer = p

\* C10 (compaction preservation), as the specification states it: when
\* Compact returns success, get and has of every key return what they
\* returned when the compaction locked the engine, and count is unchanged.
CompactionPreserves ==
    [][\A p \in Procs :
         (pc[p] = "cp_rename" /\ ~hadFatal /\ ret'.op = "Compact" /\ ret'.kind = "ok") =>
           /\ \A k \in Keys :
                /\ ReaderGet(keydir', files'.db, handles'.r, k)
                     = ReaderGet(Pre(p).keydir, Pre(p).files.db, "open", k)
                /\ ReaderHas(keydir', k) = ReaderHas(Pre(p).keydir, k)
           /\ ReaderCount(keydir') = ReaderCount(Pre(p).keydir)]_vars

\* Compact returns success in this step, with no fatal before.
CompactSucceeds(p) ==
    pc[p] = "cp_rename" /\ ~hadFatal /\ ret'.op = "Compact" /\ ret'.kind = "ok"

\* C11 (compacted log contents), as the specification states it: when
\* Compact returns success the log is made of whole rows, one for each key
\* that was live and none for any other key, every row is a Set row, the log
\* is no longer than before, and it is empty when no key was live.
CompactedLog ==
    [][\A p \in Procs :
         CompactSucceeds(p) =>
           LET rows == LogRows(files'.db, 0)
               live == DOMAIN LiveKeys(Pre(p).keydir)
           IN
           /\ Len(EncodeAll([i \in 1..Len(rows) |-> rows[i].row])) = Len(files'.db)
           /\ \A i \in 1..Len(rows) : rows[i].row.Op = OpSet /\ rows[i].row.Key \in live
           /\ \A k \in live : Cardinality({ i \in 1..Len(rows) : rows[i].row.Key = k }) = 1
           /\ Len(files'.db) <= Len(Pre(p).files.db)
           /\ live = {} => files'.db = << >>]_vars

\* C14 (compaction failure before the commit point): whenever Compact
\* returns an error, whichever step failed, the log file has the bytes and
\* the engine the keydir and the write offset of the moment the compaction
\* locked the engine.
CompactFailure ==
    [][\A p \in Procs :
         (Exclusive(p) /\ ret'.op = "Compact" /\ ret'.kind = "error") =>
           /\ files'.db = Pre(p).files.db
           /\ keydir' = Pre(p).keydir
           /\ woffset' = Pre(p).woffset]_vars

\* Compact returned the error of a failed rename, after it had copied a row
\* to the new file.
CompactFailureWitness ==
    /\ ret.op = "Compact" /\ ret.kind = "error"
    /\ ret.err = << "swap", "EIO" >>
    /\ files.compacting # Nil /\ files.compacting # Some(<< >>)
    /\ files.db # << >>

\* C13 (crash-safe compaction), as the specification states it: the Open
\* that follows a crash of the process during a compaction succeeds, leaves
\* no "db.compacting" file, and yields for every key the get result, and
\* the count, of the moment the compaction was started.
CrashSafeCompaction ==
    [][(ret.op = "Crash" /\ pc' = pc) =>
         /\ handles'.r = "open"
         /\ files'.compacting = Nil
         /\ \A k \in Keys :
              ReaderGet(keydir', files'.db, handles'.r, k)
                = ReaderGet(ret.pre.keydir, ret.pre.files.db, "open", k)
         /\ ReaderCount(keydir') = ReaderCount(ret.pre.keydir)]_vars

----------------------------------------------------------------------------
\* The keydir under sequences of Set and Delete (keydir.go, the trie
\* variant), walked and counted through the Reader.

\* The keys of the keydir specification: the empty key, "a", "a\x00", "b"
\* and "\xff", so that keys are proper prefixes of other keys, the first and
\* the last child of a node are in use, and a key follows a deeper one.
WalkKeys ==
    { << >>, << 97 >>, << 97, 0 >>, << 98 >>, << 255 >> }

\* The signals a visitor returns to stop a walk: the ErrBreak sentinel and a
\* real error.
Signals ==
    { << "ErrBreak" >>, << "EIO" >> }

\* The visitor that returns signal sig on key f and nil on every other key.
Visitor(f, sig) ==
    [k \in WalkKeys |-> IF k = f THEN sig ELSE NoErr]

\* A walk that goes on after an error that is not ErrBreak.
WalkStopsOnErrBreak(err) ==
    err = << "ErrBreak" >>

\* `if err != nil { return err }` after the visitor and after a child's walk.
WalkStops(err) ==
    err # NoErr

RECURSIVE NodeWalkDo(_, _, _, _)
RECURSIVE ChildrenWalkDo(_, _, _, _, _)

\* keydirNode.walk with the visitor `do` (key -> error): the keys the
\* visitor was invoked with, in order, and the error returned.
NodeWalkDo(nodes, reverse, prefix, do) ==
    LET children == SelectSeq(IF reverse THEN WalkLoopReverse ELSE WalkLoopForward,
                              LAMBDA c : Append(prefix, c) \in DOMAIN nodes)
        rest == ChildrenWalkDo(nodes, reverse, prefix, children, do)
    IN IF nodes[prefix] = Nil THEN rest
       ELSE IF WalkStops(do[prefix]) THEN [visited |-> << prefix >>, err |-> do[prefix]]
       ELSE [visited |-> << prefix >> \o rest.visited, err |-> rest.err]

\* The loop body of keydirNode.walk over the non-nil children `cs`.
ChildrenWalkDo(nodes, reverse, prefix, cs, do) ==
    IF cs = << >> THEN [visited |-> << >>, err |-> NoErr]
    ELSE LET r == NodeWalkDo(nodes, reverse, Append(prefix, Head(cs)), do) IN
         IF WalkStops(r.err) THEN r
         ELSE LET rest == ChildrenWalkDo(nodes, reverse, prefix, Tail(cs), do) IN
              [visited |-> r.visited \o rest.visited, err |-> rest.err]

\* keydir.walk with the visitor `do`: no visit and no error when the node of
\* the prefix is missing.
KeydirWalkDo(kd, prefix, reverse, do) ==
    IF prefix \notin DOMAIN kd.nodes THEN [visited |-> << >>, err |-> NoErr]
    ELSE NodeWalkDo(kd.nodes, reverse, prefix, do)

\* Reader.Walk: passes the key to `do` and returns what keydir.walk returns.
ReaderWalkDo(kd, prefix, reverse, do) ==
    KeydirWalkDo(kd, prefix, reverse, do)

\* Reader.CountPrefix: the number of visits of a walk with the prefix.
ReaderCountPrefix(kd, prefix) ==
    Len(KeydirWalk(kd, prefix, FALSE))

\* The values of c for which the loop body of keymapNode.walk runs, in
\* order: for c := 0; c < 256; c++ forward, for c := 255; c >= 0; c-- in
\* reverse.
KeymapLoop(reverse) ==
    [i \in 1..NumChildren |-> IF reverse THEN NumChildren - i ELSE i - 1]

RECURSIVE KeymapNodeWalk(_, _, _)
RECURSIVE KeymapChildrenWalk(_, _, _, _)

\* keymapNode.walk (the keymap variant of the trie, whose nodes hold the
\* history of a key, nil where the keydir node holds no position) with a
\* visitor that never fails: the keys the visitor is invoked with.
KeymapNodeWalk(nodes, reverse, prefix) ==
    LET self == IF nodes[prefix] # Nil THEN << prefix >> ELSE << >>
        children == SelectSeq(KeymapLoop(reverse),
                              LAMBDA c : Append(prefix, c) \in DOMAIN nodes)
    IN self \o KeymapChildrenWalk(nodes, reverse, prefix, children)

\* The loop body of keymapNode.walk over the non-nil children `cs`.
KeymapChildrenWalk(nodes, reverse, prefix, cs) ==
    IF cs = << >> THEN << >>
    ELSE KeymapNodeWalk(nodes, reverse, Append(prefix, Head(cs)))
         \o KeymapChildrenWalk(nodes, reverse, prefix, Tail(cs))

\* Reader.Count(prefix) of rw.go: counts the visits of f.km.walk(nil, ...),
\* a walk with nil options whatever the prefix.
RwReaderCount(kd, prefix) ==
    Len(KeymapNodeWalk(kd.nodes, FALSE, << >>))

\* A new File, with the history of the keys of this specification.
KeydirInit ==
    /\ files = [db |-> << >>, compacting |-> Nil]
    /\ syncedLen = 0
    /\ keydir = NewTrieKeydir
    /\ woffset = 0
    /\ handles = [r |-> "open", w |-> "open"]
    /\ mu = [writer |-> 0, readers |-> {}]
    /\ pc = [p \in Procs |-> "idle"]
    /\ local = [p \in Procs |-> NoLocal]
    /\ ret = NoRet
    /\ kv = [k \in WalkKeys |-> Nil]
    /\ committed = NewTrieKeydir
    /\ hadFatal = FALSE
    /\ hadCompact = FALSE

\* A write transaction whose callback buffers the one row `row`, on a disk
\* without faults: the row is encoded, written at woffset, applied to the
\* keydir and synced, and the lock is released.
KeydirWrite(row, newKv) ==
    /\ \A p \in Procs : pc[p] = "idle"
    /\ CanLock(mu)
    /\ handles.w = "open"
    /\ RowCount(files.db) < MaxOps
    /\ LET e == Encode(row)
           n == Len(e.bytes)
       IN /\ e.err = "nil"
          /\ files' = [files EXCEPT !.db = files.db \o e.bytes]
          /\ syncedLen' = Len(files.db) + n
          /\ woffset' = woffset + n
          /\ keydir' = UpdateMemstate(keydir, row, woffset + n, n)
          /\ committed' = keydir'
    /\ kv' = newKv
    /\ ret' = [op |-> "ReadWrite", kind |-> "ok", err |-> NoErr, rows |-> 1]
    /\ UNCHANGED << handles, mu, pc, local, hadFatal, hadCompact >>

\* ReadWrite(func(r, w) { w.Set(k, nil); return nil })
KeydirWriteSet(k) ==
    KeydirWrite(SetRow(k, << >>), [kv EXCEPT ![k] = Some(<< >>)])

\* ReadWrite(func(r, w) { w.Delete(k); return nil })
KeydirWriteDelete(k) ==
    KeydirWrite(DeleteRow(k), [kv EXCEPT ![k] = Nil])

\* Close and Open again: the keydir is rebuilt by the replay of the log.
KeydirReopen ==
    /\ \A p \in Procs : pc[p] = "idle"
    /\ CanLock(mu)
    /\ LET o == Replay(files.db) IN
         /\ o.err = NoErr
         /\ keydir' = o.keydir
         /\ woffset' = o.woffset
         /\ committed' = o.keydir
    /\ ret' = [op |-> "Open", kind |-> "ok", err |-> NoErr, rows |-> 0]
    /\ UNCHANGED << files, syncedLen, handles, mu, pc, local, kv, hadFatal, hadCompact >>

\* Read(func(r) error { return r.Walk(&WalkOptions{Reverse: reverse}, do) })
\* with the visitor that returns sig on key f: the read lock is taken and
\* released, and Read returns what the callback returns. ret also holds the
\* keys the visitor was invoked with.
KeydirReadWalk(reverse, f, sig) ==
    /\ \A p \in Procs : pc[p] = "idle"
    /\ CanRLock(mu)
    /\ LET w == ReaderWalkDo(keydir, << >>, reverse, Visitor(f, sig)) IN
         ret' = [op |-> "Read", kind |-> IF w.err = NoErr THEN "ok" ELSE "error",
                 err |-> w.err, rows |-> 0,
                 reverse |-> reverse, f |-> f, sig |-> sig, visited |-> w.visited]
    /\ UNCHANGED << files, syncedLen, keydir, woffset, handles, mu, pc, local,
                    kv, committed, hadFatal, hadCompact >>

KeydirNext ==
    \/ \E k \in WalkKeys : KeydirWriteSet(k)
    \/ \E k \in WalkKeys : KeydirWriteDelete(k)
    \/ KeydirReopen
    \/ \E reverse \in BOOLEAN, f \in WalkKeys, sig \in Signals : KeydirReadWalk(reverse, f, sig)

KeydirSpec ==
    KeydirInit /\ [][KeydirNext]_vars

----------------------------------------------------------------------------
\* Claims about the keydir, checked under KeydirSpec.

\* The keys whose most recent committed operation is a Set.
LiveSet ==
    { k \in WalkKeys : kv[k] # Nil }

\* C15 (count invariant): after any sequence of Set and Delete rows applied
\* to the keydir by write transactions or by the replay of Open, deletes of
\* absent keys, of deleted keys and of proper prefixes of live keys
\* included, Count() is the number of distinct keys whose most recent
\* operation is a Set, and it is never negative.
CountInvariant ==
    /\ ReaderCount(keydir) = Cardinality(LiveSet)
    /\ ReaderCount(keydir) >= 0

\* a is before b in byte-wise lexicographic order.
BytesLess(a, b) ==
    \E i \in 1..Len(b) :
       /\ i <= Len(a) + 1
       /\ \A j \in 1..(i - 1) : a[j] = b[j]
       /\ (i = Len(a) + 1 \/ a[i] < b[i])

\* p is a prefix of k.
HasPrefix(k, p) ==
    Len(p) <= Len(k) /\ SubSeq(k, 1, Len(p)) = p

\* The sequence s reversed.
Reversed(s) ==
    [i \in 1..Len(s) |-> s[Len(s) + 1 - i]]

\* The prefixes walks and counts are asked for: every key, and "c", which
\* no key starts with.
Prefixes ==
    WalkKeys \cup { << 99 >> }

\* C16 (forward walk): a walk without prefix and without reverse invokes
\* the visitor exactly once for each live key and for no other key, in
\* strictly ascending byte-wise lexicographic order.
ForwardWalk ==
    LET w == ReaderWalk(keydir, << >>, FALSE) IN
    /\ { w[i] : i \in 1..Len(w) } = LiveSet
    /\ Len(w) = Cardinality(LiveSet)
    /\ \A i \in 1..Len(w), j \in 1..Len(w) : i < j => BytesLess(w[i], w[j])

\* C17 (reverse walk): the sequence of keys visited with reverse = true is
\* the sequence of the forward walk reversed, so a live key that is a prefix
\* of other live keys comes after all of them.
ReverseWalk ==
    ReaderWalk(keydir, << >>, TRUE) = Reversed(ReaderWalk(keydir, << >>, FALSE))

\* C18 (prefix walk): for every prefix P, in either direction, the walk
\* with prefix P invokes the visitor exactly once for each live key that
\* starts with P, with the full key, and for no other key; when no live key
\* starts with P the visitor is not invoked and the walk returns nil.
PrefixWalk ==
    \A P \in Prefixes, reverse \in BOOLEAN :
       LET w == ReaderWalkDo(keydir, P, reverse, Visitor(<< 99 >>, NoErr))
           want == { k \in LiveSet : HasPrefix(k, P) }
       IN /\ { w.visited[i] : i \in 1..Len(w.visited) } = want
          /\ Len(w.visited) = Cardinality(want)
          /\ w.err = NoErr

\* C19 (prefix count): CountPrefix(P), and Count(P) of the variant whose
\* Count takes a prefix, is the number of live keys that start with P; for
\* the empty prefix it is the number of live keys.
PrefixCount ==
    \A P \in Prefixes :
       LET want == Cardinality({ k \in LiveSet : HasPrefix(k, P) }) IN
       /\ ReaderCountPrefix(keydir, P) = want
       /\ RwReaderCount(keydir, P) = want

\* C20 (walk abort): when the visitor returns a non-nil signal on a key,
\* the walk has invoked the visitor on the keys before it and on no key
\* after it, at any depth of the trie, and the walk and the read transaction
\* around it return exactly that signal; when the visitor returns nil on
\* every key visited, every key of the walk is visited and nil is returned.
WalkAbort ==
    ret.op = "Read" =>
      LET full == ReaderWalk(keydir, << >>, ret.reverse)
          hit == { i \in 1..Len(full) : full[i] = ret.f }
      IN IF hit = {}
         THEN ret.visited = full /\ ret.err = NoErr /\ ret.kind = "ok"
         ELSE LET first == CHOOSE i \in hit : \A j \in hit : i <= j IN
              /\ ret.visited = SubSeq(full, 1, first)
              /\ ret.err = ret.sig
              /\ ret.kind = "error"

\* "a", "a\x00" and "b" are live and the visitor returned ErrBreak on
\* "a\x00", two levels down: "b" was not visited and Read returned ErrBreak.
WalkAbortWitness ==
    /\ ret.op = "Read" /\ ret.reverse = FALSE
    /\ ret.f = << 97, 0 >> /\ ret.sig = << "ErrBreak" >>
    /\ LiveSet = { << 97 >>, << 97, 0 >>, << 98 >> }
    /\ ret.visited = << << 97 >>, << 97, 0 >> >>
    /\ ret.err = << "ErrBreak" >>

----------------------------------------------------------------------------
\* The linked-hash-table variant of the engine (file.go, with the LHTIndex
\* of package fidx). The index is held in the variable keydir. Rows are
\* encoded with the codec of encoding.go, a Delete row standing for a row
\* with IsDeleted set.

\* NewLHTIndex(numBuckets): no row, empty buckets. `buckets` holds the keys
\* of each bucket's chain (nextInBucket order), `chrono` the keys from
\* Oldest to Latest (Next order), `rows` the Position of each RowInfo.
NewLHTIndex ==
    [Count |-> 0, buckets |-> [b \in 1..NumBuckets |-> << >>],
     chrono |-> << >>, rows |-> << >>]

\* LHTIndex.hashFNV1aIndex: hash % len(idx.buckets), which is 0 for the
\* one bucket of NumBuckets, whatever the 64-bit hash.
HashFNV1aIndex(key) ==
    0

\* The key is on a bucket chain.
InChain(chain, key) ==
    \E i \in 1..Len(chain) : chain[i] = key

\* LHTIndex.Put: a key found on its bucket chain gets the new position and
\* nothing else changes; a new key is counted, appended to the chain and
\* appended to the chronological list.
LHTPut(idx, key, p) ==
    LET b == HashFNV1aIndex(key) + 1 IN
    IF InChain(idx.buckets[b], key)
    THEN [idx EXCEPT !.rows = [k \in DOMAIN idx.rows |-> IF k = key THEN p ELSE idx.rows[k]]]
    ELSE [Count |-> idx.Count + 1,
          buckets |-> [idx.buckets EXCEPT ![b] = Append(@, key)],
          chrono |-> Append(idx.chrono, key),
          rows |-> [k \in (DOMAIN idx.rows) \cup { key } |->
                      IF k = key THEN p ELSE idx.rows[k]]]

\* LHTIndex.Delete: a key found on its bucket chain is uncounted, taken off
\* the chain and unlinked from the chronological list; no-op otherwise.
LHTDelete(idx, key) ==
    LET b == HashFNV1aIndex(key) + 1 IN
    IF ~InChain(idx.buckets[b], key) THEN idx
    ELSE [Count |-> idx.Count - 1,
          buckets |-> [idx.buckets EXCEPT ![b] = SelectSeq(@, LAMBDA k : k # key)],
          chrono |-> SelectSeq(idx.chrono, LAMBDA k : k # key),
          rows |-> [k \in (DOMAIN idx.rows) \ { key } |-> idx.rows[k]]]

\* LHTIndex.Get: the row of the key on its bucket chain, or nil.
LHTGet(idx, key) ==
    IF InChain(idx.buckets[HashFNV1aIndex(key) + 1], key)
    THEN Some([Key |-> key, Position |-> idx.rows[key]])
    ELSE Nil

\* The index update of one written row (if row.IsDeleted ... else ...).
LhtUpdateMemstate(idx, row, woff, n) ==
    IF row.Op = OpDelete
    THEN LHTDelete(idx, row.Key)
    ELSE LHTPut(idx, row.Key, << woff - n, n >>)

RECURSIVE LhtCompactLoop(_, _, _, _)

\* The loop of Compact, `for row := f.idx.Oldest; row != nil; row = row.Next`,
\* over the keys still to copy: each row is read at its position in the old
\* file, written to the new file and put in the new index.
\* clean = [bytes, idx, offset].
LhtCompactLoop(data, idx, keys, clean) ==
    IF keys = << >> THEN clean
    ELSE LET position == idx.rows[Head(keys)]
             rd == ReadAt("open", data, position[1], position[2])
             n == Len(rd.bytes)
         IN LhtCompactLoop(data, idx, Tail(keys),
                [bytes |-> clean.bytes \o rd.bytes,
                 idx |-> LHTPut(clean.idx, Head(keys), << clean.offset + n - n, n >>),
                 offset |-> clean.offset + n])

\* Open(path, 0) of a path that does not exist.
LhtInit ==
    /\ files = [db |-> << >>, compacting |-> Nil]
    /\ syncedLen = 0
    /\ keydir = NewLHTIndex
    /\ woffset = 0
    /\ handles = [r |-> "open", w |-> "open"]
    /\ mu = [writer |-> 0, readers |-> {}]
    /\ pc = [p \in Procs |-> "idle"]
    /\ local = [p \in Procs |-> NoLocal]
    /\ ret = NoRet
    /\ kv = [k \in WalkKeys |-> Nil]
    /\ committed = NewTrieKeydir
    /\ hadFatal = FALSE
    /\ hadCompact = FALSE

\* A write transaction whose callback buffers the one row `row`, on a disk
\* without faults: the row is encoded, written at woffset, applied to the
\* index and synced, and the lock is released.
LhtWrite(row, newKv) ==
    /\ \A p \in Procs : pc[p] = "idle"
    /\ CanLock(mu)
    /\ RowCount(files.db) < MaxOps
    /\ LET e == Encode(row)
           n == Len(e.bytes)
       IN /\ e.err = "nil"
          /\ files' = [files EXCEPT !.db = files.db \o e.bytes]
          /\ syncedLen' = Len(files.db) + n
          /\ woffset' = woffset + n
          /\ keydir' = LhtUpdateMemstate(keydir, row, woffset + n, n)
    /\ kv' = newKv
    /\ ret' = [op |-> "ReadWrite", kind |-> "ok", err |-> NoErr, rows |-> 1]
    /\ UNCHANGED << handles, mu, pc, local, committed, hadFatal, hadCompact >>

\* ReadWrite(func(r, w) { w.Set(k, v); return nil })
LhtWriteSet(k, v) ==
    LhtWrite(SetRow(k, v), [kv EXCEPT ![k] = Some(v)])

\* ReadWrite(func(r, w) { w.Delete(k); return nil })
LhtWriteDelete(k) ==
    LhtWrite(DeleteRow(k), [kv EXCEPT ![k] = Nil])

\* Compact on a disk without faults: the rows of the index are copied to
\* "db.compacting" from Oldest to Latest, the new file is synced and renamed
\* over the log, and the new index and offset replace the old ones.
LhtCompact ==
    /\ \A p \in Procs : pc[p] = "idle"
    /\ CanLock(mu)
    /\ LET clean == LhtCompactLoop(files.db, keydir, keydir.chrono,
                                   [bytes |-> << >>, idx |-> NewLHTIndex, offset |-> 0])
       IN /\ files' = [db |-> clean.bytes, compacting |-> Nil]
          /\ syncedLen' = Len(clean.bytes)
          /\ keydir' = clean.idx
          /\ woffset' = clean.offset
    /\ ret' = [op |-> "Compact", kind |-> "ok", err |-> NoErr, rows |-> 0]
    /\ hadCompact' = TRUE
    /\ UNCHANGED << handles, mu, pc, local, kv, committed, hadFatal >>

LhtNext ==
    \/ \E k \in WalkKeys, v \in Values : LhtWriteSet(k, v)
    \/ \E k \in WalkKeys : LhtWriteDelete(k)
    \/ LhtCompact

LhtSpec ==
    LhtInit /\ [][LhtNext]_vars

\* C12 (compaction order): after a successful compact the rows of the log
\* are in strictly ascending byte-wise lexicographic order of their keys,
\* whatever the order in which the keys were written.
CompactionOrder ==
    (ret.op = "Compact" /\ ret.kind = "ok") =>
      LET rows == LogRows(files.db, 0) IN
      \A i \in 1..Len(rows), j \in 1..Len(rows) :
         i < j => BytesLess(rows[i].row.Key, rows[j].row.Key)

----------------------------------------------------------------------------
\* Claims about deletes, the codec and the commit loop.

\* The step is a committed write transaction whose one row is Delete(k).
CommitsDelete(k) ==
    /\ ret'.op = "ReadWrite" /\ ret'.kind = "ok"
    /\ files'.db = files.db \o Encode(DeleteRow(k)).bytes

\* C21 (delete of a non-live key): committing Delete(k) for a key whose
\* most recent operation is not a Set (never set, already deleted, or only a
\* proper prefix or an extension of live keys) leaves Has, Get, Count and
\* the walks unchanged for every key.
DeleteNoOp ==
    [][\A k \in WalkKeys : (kv[k] = Nil /\ CommitsDelete(k)) =>
         /\ \A j \in WalkKeys :
              /\ ReaderHas(keydir', j) = ReaderHas(keydir, j)
              /\ ReaderGet(keydir', files'.db, handles'.r, j)
                   = ReaderGet(keydir, files.db, handles.r, j)
         /\ ReaderCount(keydir') = ReaderCount(keydir)
         /\ \A P \in Prefixes, reverse \in BOOLEAN :
              ReaderWalk(keydir', P, reverse) = ReaderWalk(keydir, P, reverse)]_vars

\* The error chain holds the error e.
ErrorIs(err, e) ==
    \E i \in 1..Len(err) : err[i] = e

\* C22 (validation failures are recoverable): a write transaction in which
\* a buffered row fails the validation of Encode ends with an ordinary error
\* returned from ReadWrite and never with a fatal, whatever the position of
\* the invalid row among the buffered rows.
ValidationRecoverable ==
    (ret.op = "ReadWrite" /\ ErrorIs(ret.err, "ErrKeyTooLong")) =>
      /\ ret.kind = "error"
      /\ ~hadFatal

----------------------------------------------------------------------------
\* Open on files of any content (_keydir.go, Open).

\* The rows the files are made of: Set and Delete rows, and a row whose op
\* byte '?' is neither.
FileRows ==
    { [Op |-> op, Key |-> k, Value |-> v] :
        op \in { OpSet, OpDelete, 63 }, k \in Keys, v \in Values }

RECURSIVE RowSeqs(_, _)
\* The sequences of at most n rows of the set rs.
RowSeqs(rs, n) ==
    IF n = 0 THEN { << >> }
    ELSE LET shorter == RowSeqs(rs, n - 1) IN
         shorter \cup { Append(q, r) : q \in shorter, r \in rs }

\* The files: the encodings of at most MaxFileRows rows, cut at any length.
FileContents ==
    UNION { { SubSeq(e, 1, n) : n \in 0..Len(e) } :
              e \in { EncodeAll(q) : q \in RowSeqs(FileRows, MaxFileRows) } }

\* A path holding any of the files, with or without a "db.compacting" left
\* beside it, and no File opened on it yet.
OpenInit ==
    /\ files \in [db : FileContents, compacting : { Nil, Some(<< >>) }]
    /\ syncedLen = Len(files.db)
    /\ keydir = NewTrieKeydir
    /\ woffset = 0
    /\ handles = [r |-> "closed", w |-> "closed"]
    /\ mu = [writer |-> 0, readers |-> {}]
    /\ pc = [p \in Procs |-> "idle"]
    /\ local = [p \in Procs |-> NoLocal]
    /\ ret = NoRet
    /\ kv = [k \in Keys |-> Nil]
    /\ committed = NewTrieKeydir
    /\ hadFatal = FALSE
    /\ hadCompact = FALSE

\* Open(path, nil): removes "db.compacting", opens the two handles and
\* replays the log; returns the File, or an error and no File. ret holds
\* what Open returned and, as history, the bytes the file held before.
OpenPath ==
    /\ \A p \in Procs : pc[p] = "idle"
    /\ handles.r = "closed"
    /\ files' = [files EXCEPT !.compacting = Nil]
    /\ LET o == Replay(files.db) IN
       /\ IF o.err = NoErr
          THEN /\ keydir' = o.keydir
               /\ woffset' = o.woffset
               /\ handles' = [r |-> "open", w |-> "open"]
               /\ committed' = o.keydir
          ELSE UNCHANGED << keydir, woffset, handles, committed >>
       /\ ret' = [op |-> "Open", kind |-> IF o.err = NoErr THEN "ok" ELSE "error",
                  err |-> o.err, rows |-> 0, pre |-> files.db]
    /\ UNCHANGED << syncedLen, mu, pc, local, kv, hadFatal, hadCompact >>

\* File.Close on healthy handles: takes the lock, closes both handles and
\* releases the lock.
ClosePath ==
    /\ \A p \in Procs : pc[p] = "idle"
    /\ CanLock(mu)
    /\ handles = [r |-> "open", w |-> "open"]
    /\ handles' = [r |-> "closed", w |-> "closed"]
    /\ ret' = [op |-> "Close", kind |-> "ok", err |-> NoErr, rows |-> 0]
    /\ UNCHANGED << files, syncedLen, keydir, woffset, mu, pc, local,
                    kv, committed, hadFatal, hadCompact >>

OpenNext ==
    \/ OpenPath
    \/ ClosePath

OpenSpec ==
    OpenInit /\ [][OpenNext]_vars

\* The bytes are the encodings of zero or more complete rows whose op is
\* Set or Delete.
WellFormed(data) ==
    \E q \in RowSeqs({ r \in FileRows : r.Op \in { OpSet, OpDelete } }, MaxFileRows) :
       EncodeAll(q) = data

\* C23 (open-time recovery classification): Open succeeds exactly when the
\* file is a concatenation of zero or more complete rows whose op is Set or
\* Delete; a file ending in a partial header, key or value, or holding a row
\* with another op, makes Open return an error; the bytes of the file are
\* never modified by Open.
OpenClassification ==
    ret.op = "Open" =>
      /\ ret.kind = "ok" <=> WellFormed(ret.pre)
      /\ ret.kind = "ok" => (handles.r = "open" /\ woffset = Len(files.db))
      /\ files.db = ret.pre
      /\ files.compacting = Nil

\* Open returned an error on a file made of a header announcing a value of
\* one byte and nothing after it: the read of the value hit the end of the
\* file at once, but six bytes of the row had been consumed.
OpenClassificationWitness ==
    /\ ret.op = "Open" /\ ret.kind = "error"
    /\ ret.err = << "decode row", "EOF" >>
    /\ files.db = << OpSet, 0, 0, 0, 0, 1 >>
    /\ handles.r = "closed"

----------------------------------------------------------------------------
\* The text framings (Format, TextAutoLengthEncoding, TextEncoding) and the
\* engine variant that writes through a Format (rw.go).

\* DefaultTextAutoLengthEncoding: ' ' after the op and the key, '\n' after
\* the value.
DefaultTextAutoLengthEncoding ==
    [OpSuffix |-> 32, KeySuffix |-> 32, ValueSuffix |-> 10]

\* DefaultTextEncoding: ' ' after the op, the lengths and the key, '\n'
\* after the value.
DefaultTextEncoding ==
    [OpSuffix |-> 32, KeyLengthSuffix |-> 32, ValueLengthSuffix |-> 32,
     KeySuffix |-> 32, ValueSuffix |-> 10]

\* bytes.IndexByte(b, c) != -1
ContainsByte(b, c) ==
    \E i \in 1..Len(b) : b[i] = c

\* A ReadBytes that reads up to the last delim of the data.
ReadBytesToLast(data, delim) ==
    IF ContainsByte(data, delim)
    THEN LET last == CHOOSE i \in 1..Len(data) :
                        data[i] = delim /\ \A j \in (i + 1)..Len(data) : data[j] # delim
         IN [bytes |-> SubSeq(data, 1, last), err |-> "nil"]
    ELSE [bytes |-> data, err |-> "EOF"]

\* (*bufio.Reader).ReadBytes(delim) over a reader holding `data`: the bytes
\* up to and including the first delim, or all of them and io.EOF.
ReadBytes(data, delim) ==
    IF ContainsByte(data, delim)
    THEN LET first == CHOOSE i \in 1..Len(data) :
                         data[i] = delim /\ \A j \in 1..(i - 1) : data[j] # delim
         IN [bytes |-> SubSeq(data, 1, first), err |-> "nil"]
    ELSE [bytes |-> data, err |-> "EOF"]

RECURSIVE FormatUint(_)
\* strconv.FormatUint(n, 10): the decimal digits of n, in ASCII.
FormatUint(n) ==
    IF n < 10 THEN << 48 + n >>
    ELSE Append(FormatUint(n \div 10), 48 + (n % 10))

RECURSIVE DigitsValue(_)
\* The number a sequence of ASCII digits stands for.
DigitsValue(digits) ==
    IF digits = << >> THEN 0
    ELSE 10 * DigitsValue(SubSeq(digits, 1, Len(digits) - 1))
         + (digits[Len(digits)] - 48)

\* strconv.ParseUint(s, 10, bitSize): [n, err]; a syntax error for an empty
\* string and for a byte that is not a digit, a range error for a number
\* over 2^bitSize - 1 (no length of the model has more than five digits, so
\* only the 16-bit bound is computed).
ParseUint(str, bitSize) ==
    IF str = << >> \/ \E i \in 1..Len(str) : str[i] \notin 48..57
    THEN [n |-> 0, err |-> "ErrSyntax"]
    ELSE IF Len(str) > 5 \/ (bitSize = 16 /\ DigitsValue(str) > 65535)
    THEN [n |-> 0, err |-> "ErrRange"]
    ELSE [n |-> DigitsValue(str), err |-> "nil"]

\* An Encode that looks for the sentinel in the key only.
TextAutoLengthEncodeChecksKeyOnly(e, row) ==
    IF ContainsByte(row.Key, e.KeySuffix)
    THEN [bytes |-> << >>, err |-> "key contains sentinel suffix"]
    ELSE [bytes |-> << row.Op, e.OpSuffix >> \o row.Key \o << e.KeySuffix >>
                      \o row.Value \o << e.ValueSuffix >>,
          err |-> "nil"]

\* TextAutoLengthEncoding.Encode: [bytes, err].
TextAutoLengthEncode(e, row) ==
    IF ContainsByte(row.Key, e.KeySuffix)
    THEN [bytes |-> << >>, err |-> "key contains sentinel suffix"]
    ELSE IF ContainsByte(row.Value, e.ValueSuffix)
    THEN [bytes |-> << >>, err |-> "value contains sentinel suffix"]
    ELSE [bytes |-> << row.Op, e.OpSuffix >> \o row.Key \o << e.KeySuffix >>
                      \o row.Value \o << e.ValueSuffix >>,
          err |-> "nil"]

\* The bytes without the last one.
DropLast(b) ==
    SubSeq(b, 1, Len(b) - 1)

\* TextAutoLengthEncoding.DecodeFrom over a reader holding `data`:
\* [n, err, row]; the fields of the row are assigned as they are read.
TextAutoLengthDecodeFrom(e, row, data) ==
    LET h == ReadFull(Len(data), 2) IN
    IF h.err # "nil" THEN [n |-> h.n, err |-> h.err, row |-> row]
    ELSE
    LET row1 == [row EXCEPT !.Op = data[1]]
        k == ReadBytes(SubSeq(data, 3, Len(data)), e.KeySuffix)
        nk == 2 + Len(k.bytes)
    IN
    IF k.err # "nil" THEN [n |-> nk, err |-> k.err, row |-> row1]
    ELSE
    LET row2 == [row1 EXCEPT !.Key = DropLast(k.bytes)]
        v == ReadBytes(SubSeq(data, nk + 1, Len(data)), e.ValueSuffix)
        nv == nk + Len(v.bytes)
    IN
    IF v.err # "nil" THEN [n |-> nv, err |-> v.err, row |-> row2]
    ELSE
    LET row3 == [row2 EXCEPT !.Value = DropLast(v.bytes)] IN
    IF data[2] # e.OpSuffix THEN [n |-> nv, err |-> "bad op suffix", row |-> row3]
    ELSE IF k.bytes[Len(k.bytes)] # e.KeySuffix
    THEN [n |-> nv, err |-> "bad key suffix", row |-> row3]
    ELSE IF v.bytes[Len(v.bytes)] # e.ValueSuffix
    THEN [n |-> nv, err |-> "bad value suffix", row |-> row3]
    ELSE [n |-> nv, err |-> "nil", row |-> row3]

\* TextEncoding.Encode: [bytes, err]; the key may be as long as a uint16
\* counts (the value bound 2^32-1 is not reachable with the model's values).
TextEncode(e, row) ==
    IF Len(row.Key) > 65535
    THEN [bytes |-> << >>, err |-> "key too long"]
    ELSE [bytes |-> << row.Op, e.OpSuffix >>
                      \o FormatUint(Len(row.Key)) \o << e.KeyLengthSuffix >>
                      \o FormatUint(Len(row.Value)) \o << e.ValueLengthSuffix >>
                      \o row.Key \o << e.KeySuffix >>
                      \o row.Value \o << e.ValueSuffix >>,
          err |-> "nil"]

\* The suffix checks that end TextEncoding.DecodeFrom: kl and vl are the
\* key-length and value-length reads, nk and nv the bytes read up to the end
\* of the key and of the value.
TextCheckSuffixes(e, row, data, kl, vl, nk, nv) ==
    IF data[2] # e.OpSuffix THEN [n |-> nv, err |-> "bad op suffix", row |-> row]
    ELSE IF kl.bytes[Len(kl.bytes)] # e.KeyLengthSuffix
    THEN [n |-> nv, err |-> "bad key-length suffix", row |-> row]
    ELSE IF vl.bytes[Len(vl.bytes)] # e.ValueLengthSuffix
    THEN [n |-> nv, err |-> "bad value-length suffix", row |-> row]
    ELSE IF data[nk] # e.KeySuffix
    THEN [n |-> nv, err |-> "bad key suffix", row |-> row]
    ELSE IF data[nv] # e.ValueSuffix
    THEN [n |-> nv, err |-> "bad value suffix", row |-> row]
    ELSE [n |-> nv, err |-> "nil", row |-> row]

\* TextEncoding.DecodeFrom from the read of the key on: nvl bytes were read
\* before it. The key and the value are assigned as they are read.
TextDecodeKeyValue(e, row, data, kl, vl, nvl, keyLength, valueLength) ==
    LET k == ReadFull(Len(data) - nvl, keyLength + 1)
        nk == nvl + k.n
        v == ReadFull(Len(data) - nk, valueLength + 1)
        nv == nk + v.n
        rowK == [row EXCEPT !.Key = SubSeq(data, nvl + 1, nvl + keyLength)]
        rowV == [rowK EXCEPT !.Value = SubSeq(data, nk + 1, nk + valueLength)]
    IN
    IF k.err # "nil" THEN [n |-> nk, err |-> k.err, row |-> row]
    ELSE IF v.err # "nil" THEN [n |-> nv, err |-> v.err, row |-> rowK]
    ELSE TextCheckSuffixes(e, rowV, data, kl, vl, nk, nv)

\* TextEncoding.DecodeFrom from the read of the key length on: the op was
\* read and assigned.
TextDecodeLengths(e, row, data) ==
    LET kl == ReadBytes(SubSeq(data, 3, Len(data)), e.KeyLengthSuffix)
        nkl == 2 + Len(kl.bytes)
        keyLength == ParseUint(DropLast(kl.bytes), 16)
        vl == ReadBytes(SubSeq(data, nkl + 1, Len(data)), e.ValueLengthSuffix)
        nvl == nkl + Len(vl.bytes)
        valueLength == ParseUint(DropLast(vl.bytes), 32)
    IN
    IF kl.err # "nil" THEN [n |-> nkl, err |-> kl.err, row |-> row]
    ELSE IF keyLength.err # "nil" THEN [n |-> nkl, err |-> keyLength.err, row |-> row]
    ELSE IF vl.err # "nil" THEN [n |-> nvl, err |-> vl.err, row |-> row]
    ELSE IF valueLength.err # "nil"
    THEN [n |-> nvl, err |-> valueLength.err, row |-> row]
    ELSE TextDecodeKeyValue(e, row, data, kl, vl, nvl, keyLength.n, valueLength.n)

\* TextEncoding.DecodeFrom over a reader holding `data`: [n, err, row]; the
\* fields of the row are assigned as they are read.
TextDecodeFrom(e, row, data) ==
    LET h == ReadFull(Len(data), 2) IN
    IF h.err # "nil" THEN [n |-> h.n, err |-> h.err, row |-> row]
    ELSE TextDecodeLengths(e, [row EXCEPT !.Op = data[1]], data)

\* &keymap{root: &keymapNode{}}: `nodes` maps the path of every allocated
\* node to its history of positions (nil is the empty history).
NewKeymap ==
    [nodes |-> (<<>> :> << >>)]

\* keymap.set: allocates the missing nodes of the path and appends the
\* position to the history of the key's node.
KeymapSet(km, key, position) ==
    LET grown == [n \in (DOMAIN km.nodes) \cup PathNodes(key) |->
                    IF n \in DOMAIN km.nodes THEN km.nodes[n] ELSE << >>]
    IN [nodes |-> [grown EXCEPT ![key] = Append(@, position)]]

\* keymap.delete: returns early when a node of the path is missing, else
\* drops the history of the key's node.
KeymapDelete(km, key) ==
    IF key \notin DOMAIN km.nodes THEN km
    ELSE [nodes |-> [km.nodes EXCEPT ![key] = << >>]]

\* keymap.get: the history of the key's node, nil when the path is missing.
KeymapGet(km, key) ==
    IF key \notin DOMAIN km.nodes THEN << >> ELSE km.nodes[key]

\* The framings a file can be written in: the binary one of Row.Encode and
\* the two Formats.
Formats ==
    { "binary", "text-auto-length", "text" }

\* f.fmt.Encode(row), or row.Encode() in the binary engine: [bytes, err].
FormatEncode(fmt, row) ==
    CASE fmt = "binary" -> Encode(row)
      [] fmt = "text-auto-length" ->
           TextAutoLengthEncode(DefaultTextAutoLengthEncoding, row)
      [] fmt = "text" -> TextEncode(DefaultTextEncoding, row)

\* f.fmt.DecodeFrom(bufr, row), or row.DecodeFrom(bufr) in the binary
\* engine: [n, err, row].
FormatDecodeFrom(fmt, row, data) ==
    CASE fmt = "binary" -> DecodeFrom(row, data)
      [] fmt = "text-auto-length" ->
           TextAutoLengthDecodeFrom(DefaultTextAutoLengthEncoding, row, data)
      [] fmt = "text" -> TextDecodeFrom(DefaultTextEncoding, row, data)

\* The keys and values the callbacks of this specification write: plain
\* ones, ones made of a sentinel byte of the text framings, and a key of
\* 256 bytes.
FmtKeys == { << 97 >>, << 32 >>, << 10 >>, LongKey }

FmtValues == { << >>, << 32 >>, << 10 >> }

\* What Writer.Set and Writer.Delete buffer for them.
FmtRows ==
    { WriterSet(<< >>, k, v)[1] : k \in FmtKeys \ { LongKey }, v \in FmtValues }
    \cup { WriterSet(<< >>, LongKey, << >>)[1] }
    \cup { WriterDelete(<< >>, k)[1] : k \in { << 97 >>, << 32 >> } }

\* What the disk does to a transaction: nothing, a Write that fails at row
\* `at` after n bytes, or a Sync that fails; `truncated` tells whether the
\* Truncate of the corruption path succeeds when it is called.
Faults ==
    { [kind |-> "none", at |-> 0, n |-> 0, truncated |-> t] : t \in BOOLEAN }
    \cup { [kind |-> "sync", at |-> 0, n |-> 0, truncated |-> TRUE] }
    \cup { [kind |-> "write", at |-> i, n |-> n, truncated |-> t] :
              i \in 1..MaxTxRows, n \in 0..1, t \in BOOLEAN }

RECURSIVE FmtCommitLoop(_, _, _, _, _, _)
\* The commit loop of ReadWrite and its Sync, from row i on, with st the
\* file bytes, f.woffset and f.km so far: what the call ends with (kind
\* "ok", "error" or "panic"), the state it leaves, the rows written in
\* full and the row whose Encode failed, if one did.
FmtCommitLoop(fmt, rows, i, st, startOffset, fault) ==
    LET corrupt(err, s) ==
          IF s.woffset = startOffset
          THEN [kind |-> "error", err |-> err, st |-> s]
          ELSE IF fault.truncated
          THEN [kind |-> "panic", err |-> Wrap("memstate corruption", Tail(err)),
                st |-> [s EXCEPT !.db = Truncate(s.db, startOffset)]]
          ELSE [kind |-> "panic",
                err |-> Wrap("file corruption", Tail(err) \o << "truncate" >>),
                st |-> s]
    IN
    IF i > Len(rows)
    THEN IF fault.kind = "sync"
         THEN [kind |-> "panic", err |-> << "sync", "file corruption", "EIO" >>,
               st |-> st, wrote |-> SubSeq(rows, 1, i - 1), failed |-> Nil]
         ELSE [kind |-> "ok", err |-> NoErr, st |-> st,
               wrote |-> SubSeq(rows, 1, i - 1), failed |-> Nil]
    ELSE
    LET enc == FormatEncode(fmt, rows[i]) IN
    IF enc.err # "nil"
    THEN corrupt(Wrap("encode", << enc.err >>), st)
           @@ [wrote |-> SubSeq(rows, 1, i - 1), failed |-> Some(rows[i])]
    ELSE
    LET fails == fault.kind = "write" /\ fault.at = i
        n == IF fails THEN fault.n ELSE Len(enc.bytes)
        written == [st EXCEPT !.db = @ \o SubSeq(enc.bytes, 1, n),
                              !.woffset = @ + n]
    IN
    IF fails
    THEN corrupt(Wrap("write", << "EIO" >>), written)
           @@ [wrote |-> SubSeq(rows, 1, i - 1), failed |-> Nil]
    ELSE
    LET updated == [written EXCEPT !.km =
                      IF rows[i].Op = OpSet
                      THEN KeymapSet(@, rows[i].Key, << written.woffset - n, n >>)
                      ELSE KeymapDelete(@, rows[i].Key)]
    IN FmtCommitLoop(fmt, rows, i + 1, updated, startOffset, fault)

\* File.ReadWrite(do) as one step, with a callback that returns an error or
\* buffers `rows`: takes the lock, runs the callback, encodes and writes the
\* rows, syncs and releases the lock. ret holds what the call ended with,
\* the rows it wrote in full and the row whose Encode failed; `committed`
\* gains the rows of a call that returned nil.
FmtReadWrite(rows, abort, fault) ==
    /\ ~hadFatal
    /\ handles.w = "open"
    /\ CanLock(mu)
    /\ IF abort
       THEN /\ ret' = [op |-> "ReadWrite", kind |-> "error", err |-> << "ErrBreak" >>,
                       rows |-> 0, wrote |-> << >>, failed |-> Nil,
                       fmt |-> handles.fmt]
            /\ UNCHANGED << files, syncedLen, keydir, woffset, committed, hadFatal >>
       ELSE LET o == FmtCommitLoop(handles.fmt, rows, 1,
                                   [db |-> files.db, woffset |-> woffset, km |-> keydir],
                                   woffset, fault)
            IN /\ files' = [files EXCEPT !.db = o.st.db]
               /\ woffset' = o.st.woffset
               /\ keydir' = o.st.km
               /\ syncedLen' = IF o.kind = "ok" THEN Len(o.st.db)
                               ELSE IF Len(o.st.db) < syncedLen THEN Len(o.st.db)
                               ELSE syncedLen
               /\ committed' = IF o.kind = "ok" THEN committed \o rows ELSE committed
               /\ hadFatal' = (o.kind = "panic")
               /\ ret' = [op |-> "ReadWrite", kind |-> o.kind, err |-> o.err,
                          rows |-> Len(o.wrote), wrote |-> o.wrote,
                          failed |-> o.failed, fmt |-> handles.fmt]
    /\ UNCHANGED << handles, mu, pc, local, kv, hadCompact >>

RECURSIVE FmtOpenLoop(_, _, _, _, _, _)
RECURSIVE FmtOpenStep(_, _, _, _, _, _, _)
\* One turn of the replay loop of Open, given what DecodeFrom returned (d)
\* for the Row it was handed (row): the error, f.woffset, f.km and, as
\* history, the rows decoded with the byte count DecodeFrom returned for
\* each, and the Row as the last DecodeFrom left it.
FmtOpenStep(fmt, data, off, km, row, decoded, d) ==
    IF d.n = 0 /\ d.err = "EOF"
    THEN [err |-> NoErr, km |-> km, woffset |-> off + d.n, decoded |-> decoded,
          row |-> d.row]
    ELSE IF d.err # "nil"
    THEN [err |-> Wrap("decode row", << d.err >>), km |-> km, woffset |-> off + d.n,
          decoded |-> decoded, row |-> d.row]
    ELSE IF d.row.Op \notin { OpSet, OpDelete }
    THEN [err |-> << "unknown row op" >>, km |-> km, woffset |-> off + d.n,
          decoded |-> decoded, row |-> d.row]
    ELSE FmtOpenLoop(fmt, SubSeq(data, d.n + 1, Len(data)), off + d.n,
                     IF d.row.Op = OpSet
                     THEN KeymapSet(km, d.row.Key, << off, d.n >>)
                     ELSE KeymapDelete(km, d.row.Key),
                     d.row, Append(decoded, [row |-> d.row, n |-> d.n]))

\* The replay loop of Open over the bytes `data` left to read, with one Row
\* reused for every DecodeFrom.
FmtOpenLoop(fmt, data, off, km, row, decoded) ==
    FmtOpenStep(fmt, data, off, km, row, decoded, FormatDecodeFrom(fmt, row, data))

\* Open(path, format) by a host process started again on the same path with
\* the same format: removes "db.compacting", opens the handles and replays
\* the log into a new keymap; on an error no File is returned. ret holds
\* what Open returned, the rows its loop decoded and the Row of the loop as
\* the last DecodeFrom left it.
FmtOpen ==
    /\ files' = [files EXCEPT !.compacting = Nil]
    /\ LET o == FmtOpenLoop(handles.fmt, files.db, 0, NewKeymap,
                            [Op |-> 0, Key |-> << >>, Value |-> << >>], << >>)
       IN /\ IF o.err = NoErr
             THEN /\ keydir' = o.km
                  /\ woffset' = o.woffset
                  /\ handles' = [handles EXCEPT !.r = "open", !.w = "open"]
             ELSE /\ handles' = [handles EXCEPT !.r = "closed", !.w = "closed"]
                  /\ UNCHANGED << keydir, woffset >>
          /\ ret' = [op |-> "Open", kind |-> IF o.err = NoErr THEN "ok" ELSE "error",
                     err |-> o.err, rows |-> Len(o.decoded), decoded |-> o.decoded,
                     row |-> o.row, fmt |-> handles.fmt]
    /\ UNCHANGED << syncedLen, mu, pc, local, kv, committed, hadFatal, hadCompact >>

\* A new, empty file opened in any of the framings.
FmtInit ==
    /\ files = [db |-> << >>, compacting |-> Nil]
    /\ syncedLen = 0
    /\ keydir = NewKeymap
    /\ woffset = 0
    /\ handles \in [r : { "open" }, w : { "open" }, fmt : Formats]
    /\ mu = [writer |-> 0, readers |-> {}]
    /\ pc = [p \in Procs |-> "idle"]
    /\ local = [p \in Procs |-> NoLocal]
    /\ ret = NoRet
    /\ kv = [k \in Keys |-> Nil]
    /\ committed = << >>
    /\ hadFatal = FALSE
    /\ hadCompact = FALSE

FmtNext ==
    \/ \E rows \in RowSeqs(FmtRows, MaxTxRows) :
         /\ Len(committed) + Len(rows) <= MaxFileRows
         /\ \/ FmtReadWrite(rows, TRUE, CHOOSE f \in Faults : f.kind = "sync")
            \/ \E fault \in Faults : FmtReadWrite(rows, FALSE, fault)
    \/ FmtOpen

FmtSpec ==
    FmtInit /\ [][FmtNext]_vars

RECURSIVE FormatEncodeAll(_, _)
\* The encodings of the rows in the framing, one after the other.
FormatEncodeAll(fmt, rows) ==
    IF rows = << >> THEN << >>
    ELSE FormatEncode(fmt, Head(rows)).bytes \o FormatEncodeAll(fmt, Tail(rows))

----------------------------------------------------------------------------
\* Claims about the framings.

\* C24 (codec round-trip): when Open replays a file made of the encodings
\* of the committed rows, in any of the three framings, its loop decodes
\* exactly those rows, one by one and in order, each with the op, key and
\* value that was encoded, and each DecodeFrom returns the length of the
\* row's encoding.
CodecRoundTrip ==
    (ret.op = "Open" /\ files.db = FormatEncodeAll(ret.fmt, committed)) =>
      /\ ret.kind = "ok"
      /\ Len(ret.decoded) = Len(committed)
      /\ \A i \in 1..Len(committed) :
           /\ ret.decoded[i].row = committed[i]
           /\ ret.decoded[i].n = Len(FormatEncode(ret.fmt, committed[i]).bytes)

\* Open decoded a Set row whose key is a line feed and whose value is a
\* space, then a Delete row, from a file in the sentinel-delimited framing.
CodecRoundTripWitness ==
    /\ ret.op = "Open" /\ ret.kind = "ok"
    /\ ret.fmt = "text-auto-length"
    /\ committed = << [Op |-> OpSet, Key |-> << 10 >>, Value |-> << 32 >>],
                      [Op |-> OpDelete, Key |-> << 97 >>, Value |-> << >>] >>
    /\ files.db = << OpSet, 32, 10, 32, 32, 10, OpDelete, 32, 97, 32, 10 >>
    /\ ret.decoded = << [row |-> committed[1], n |-> 6],
                        [row |-> committed[2], n |-> 5] >>

\* C25 (encode length validation in every framing): no row whose key is
\* longer than 255 bytes is ever encoded and committed, in any framing: a
\* transaction whose Encode met such a row ended with key-too-long, and the
\* rows of the transactions that returned nil all have keys within the
\* bound.
EncodeLengthValidation ==
    /\ \A i \in 1..Len(committed) : Len(committed[i].Key) <= MaxKeyLength
    /\ (ret.op = "ReadWrite" /\ ret.failed # Nil
          /\ Len(ret.failed[1].Key) > MaxKeyLength) =>
         ErrorIs(ret.err, "ErrKeyTooLong")

\* The key holds the key suffix or the value holds the value suffix of e.
HasSentinel(e, row) ==
    \/ ContainsByte(row.Key, e.KeySuffix)
    \/ ContainsByte(row.Value, e.ValueSuffix)

\* C26 (text-framing sentinel rejection): in the sentinel-delimited framing
\* every committed row is free of the sentinels, an Encode that failed in a
\* transaction failed on a row holding one, and the file then holds no byte
\* of that row: it is the encodings of the committed rows, followed by the
\* rows the transaction had written before only when the truncate of the
\* corruption path failed.
SentinelRejection ==
    handles.fmt = "text-auto-length" =>
      /\ \A i \in 1..Len(committed) :
           ~HasSentinel(DefaultTextAutoLengthEncoding, committed[i])
      /\ (ret.op = "ReadWrite" /\ ret.failed # Nil) =>
           /\ HasSentinel(DefaultTextAutoLengthEncoding, ret.failed[1])
           /\ ret.kind \in { "error", "panic" }
           /\ files.db = FormatEncodeAll(ret.fmt, committed)
                           \o (IF ret.err[1] = "file corruption"
                               THEN FormatEncodeAll(ret.fmt, ret.wrote) ELSE << >>)

\* A transaction of the single row Set("a", LF) returned the encode error
\* on a file that held a row already, and the file is still that row.
SentinelRejectionWitness ==
    /\ ret.op = "ReadWrite" /\ ret.kind = "error"
    /\ ret.fmt = "text-auto-length"
    /\ ret.failed = Some([Op |-> OpSet, Key |-> << 97 >>, Value |-> << 10 >>])
    /\ ret.err = << "encode", "value contains sentinel suffix" >>
    /\ files.db = << OpSet, 32, 97, 32, 32, 10 >>

----------------------------------------------------------------------------
\* Readers kept by callbacks (Read, ReadWrite and Reader of _keydir.go).

\* return do(r) with a callback that stores its *Reader in a variable of the
\* caller and returns nil: the deferred RUnlock runs, the caller keeps r.
ReadReturnKeeps(p) ==
    /\ pc[p] = "rd_do"
    /\ ret' = [op |-> "Read", kind |-> "ok", err |-> NoErr, rows |-> 0]
    /\ mu' = [mu EXCEPT !.readers = @ \ {p}]
    /\ pc' = [pc EXCEPT ![p] = "idle"]
    /\ local' = [local EXCEPT ![p].reader = TRUE]
    /\ UNCHANGED << files, syncedLen, keydir, woffset, handles,
                    kv, committed, hadFatal, hadCompact >>

\* r.Get(key), called by the callback of a read transaction or, outside any
\* call, on a Reader the caller kept: the lookup in r.f.keydir and the
\* positional read. Called while another caller is inside an exclusive
\* call, the lookup races with that call's updates and sees the keydir with
\* or without them. ret holds what Get returned and whether the call was
\* made inside the transaction of the Reader.
ReaderGetCall(p, key) ==
    /\ \/ pc[p] = "rd_do"
       \/ pc[p] = "idle" /\ local[p].reader
    /\ LET racing == mu.writer \in Procs \ {p}
           seen == IF racing THEN { keydir, Pre(mu.writer).keydir } ELSE { keydir }
       IN \E kd \in seen :
            LET g == ReaderGet(kd, files.db, handles.r, key) IN
            ret' = [op |-> "Get", kind |-> IF g.err = NoErr THEN "ok" ELSE "error",
                    err |-> g.err, rows |-> 0, value |-> g.value,
                    inside |-> pc[p] = "rd_do"]
    /\ UNCHANGED << files, syncedLen, keydir, woffset, handles, mu, pc, local,
                    kv, committed, hadFatal, hadCompact >>

HandleNext ==
    \/ \E p \in Procs : RWLock(p)
    \/ \E p \in Procs : RWCallback(p)
    \/ \E p \in Procs : RWAbort(p)
    \/ \E p \in Procs : RWCommitRow(p)
    \/ \E p \in Procs : RWSync(p)
    \/ \E p \in Procs : ReadLock(p)
    \/ \E p \in Procs : ReadReturn(p)
    \/ \E p \in Procs : ReadReturnKeeps(p)
    \/ \E p \in Procs, key \in Keys : ReaderGetCall(p, key)

HandleSpec ==
    Init /\ [][HandleNext]_vars

\* C27 (handle lifetime): every Get that does its keydir lookup and
\* positional read is called inside the transaction that created its
\* Reader, under that transaction's hold of the lock.
HandleLifetime ==
    ret.op = "Get" => ret.inside

----------------------------------------------------------------------------
\* Claims about the corruption protocol and the positions.

\* C28 (corruption protocol after bytes were written): when a commit ends
\* on an encode or write failure with f.woffset past the offset the
\* transaction started at, ReadWrite does not return: it panics, either
\* with the memory-corrupt error and the file cut back to exactly the bytes
\* it held when the transaction took the lock, or, when the truncate
\* failed, with the file-corrupt error and the written bytes still there.
CorruptionProtocol ==
    [][\A p \in Procs :
         (/\ pc[p] = "rw_called"
          /\ ret'.op = "ReadWrite"
          /\ ErrorIs(ret'.err, "encode") \/ ErrorIs(ret'.err, "write")
          /\ woffset' # local[p].startOffset) =>
           /\ ret'.kind = "panic"
           /\ \/ /\ ret'.err[1] = "memstate corruption"
                 /\ files'.db = Pre(p).files.db
                 /\ Len(files'.db) = local[p].startOffset
              \/ /\ ret'.err[1] = "file corruption"
                 /\ Len(files'.db) = woffset'
                 /\ SubSeq(files'.db, 1, local[p].startOffset) = Pre(p).files.db]_vars

\* A transaction of one row on a file that held a row already got one byte
\* of its row written before the Write failed, and panicked with the
\* memory-corrupt error; the file is the earlier row alone again, while
\* f.woffset still counts the byte.
CorruptionProtocolWitness ==
    /\ ret.op = "ReadWrite" /\ ret.kind = "panic"
    /\ ret.err = << "memstate corruption", "write", "EIO" >>
    /\ ret.rows = 1
    /\ files.db = Encode(SetRow(<< >>, << >>)).bytes
    /\ woffset = Len(files.db) + 1

\* C29 (fsync failure is fatal): a ReadWrite whose Sync failed ended in a
\* panic, never in a return; and whenever ReadWrite has returned nil, the
\* last Sync that succeeded covers the whole file.
SyncFailureFatal ==
    ret.op = "ReadWrite" =>
      /\ ErrorIs(ret.err, "sync") => (ret.kind = "panic" /\ hadFatal)
      /\ ret.kind = "ok" => syncedLen = Len(files.db)

\* A transaction of one Set wrote its row and updated the keydir, its Sync
\* failed, and it panicked after cutting the file back to empty.
SyncFailureFatalWitness ==
    /\ ret.op = "ReadWrite" /\ ret.kind = "panic"
    /\ ret.err = << "memstate corruption", "sync", "EIO" >>
    /\ ret.rows = 1
    /\ files.db = << >>
    /\ woffset > 0
    /\ ReaderCount(keydir) = 1

\* The keys that have an entry in the keydir.
Entries(kd) ==
    { key \in DOMAIN kd.nodes : kd.nodes[key] # Nil }

\* C30 (position invariant): as long as no call has ended in a fatal, every
\* keydir entry (K, (offset, size)) lies within the log, and the bytes in
\* [offset, offset+size) decode to exactly one Set row whose key is K; a
\* key has one node in the trie and so at most one entry.
PositionInvariant ==
    ~hadFatal =>
      \A key \in Entries(keydir) :
        LET position == KeydirGet(keydir, key)[1] IN
        /\ 0 <= position.Offset
        /\ position.Offset + position.Size <= Len(files.db)
        /\ LET d == DecodeFrom([Op |-> 0, Key |-> << >>, Value |-> << >>],
                               SubSeq(files.db, position.Offset + 1,
                                      position.Offset + position.Size))
           IN /\ d.err = "nil"
              /\ d.n = position.Size
              /\ d.row.Op = OpSet
              /\ d.row.Key = key

\* Nobody is inside a call, no call ended in a fatal, and the only entry of
\* the keydir is the key 0xFF at the second row of the log, an 8-byte Set
\* row that follows a 6-byte row.
PositionInvariantWitness ==
    /\ \A p \in Procs : pc[p] = "idle"
    /\ ~hadFatal
    /\ Entries(keydir) = { << 255 >> }
    /\ KeydirGet(keydir, << 255 >>) = Some([Offset |-> 6, Size |-> 8])
    /\ Len(files.db) = 14

----------------------------------------------------------------------------
\* Claims about the logical offset and the compaction file.

RECURSIVE SumSizes(_)
\* The sum of the sizes of the rows.
SumSizes(rows) ==
    IF rows = << >> THEN 0
    ELSE Head(rows).position.Size + SumSizes(Tail(rows))

\* C31 (logical offset agrees with the file): whenever no call has ended
\* in a fatal, the handles are open and no caller is inside an exclusive
\* call, f.woffset is the length of the log, and the log is made of rows
\* that follow each other from offset 0 and whose encoded sizes add up to
\* that length.
OffsetAgrees ==
    (~hadFatal /\ handles.w = "open" /\ mu.writer = 0) =>
      /\ woffset = Len(files.db)
      /\ SumSizes(LogRows(files.db, 0)) = Len(files.db)
      /\ \A i \in 1..Len(LogRows(files.db, 0)) :
           LogRows(files.db, 0)[i].position.Offset
             = SumSizes(SubSeq(LogRows(files.db, 0), 1, i - 1))

\* A write transaction returned nil on a log that a compaction had written:
\* the offset is the length of the two rows of the log.
OffsetAgreesWitness ==
    /\ ret.op = "ReadWrite" /\ ret.kind = "ok" /\ ret.rows = 1
    /\ hadCompact /\ ~hadFatal
    /\ Len(LogRows(files.db, 0)) = 2
    /\ woffset = 13
    /\ Len(files.db) = 13

----------------------------------------------------------------------------
\* The history-keeping engine: Compact(newFormat) and Versions (the File of
\* the keymap variant, rw.go).

\* The most bytes that failed compactions may leave at path+".compacting".
MaxLeftover == 10

\* The most bytes of a log that a compaction produces.
MaxLog == 20

\* The keys and values of this specification.
KmKeys == { << 97 >> }

KmValues == { << 49 >>, << 50 >> }

\* What Writer.Set and Writer.Delete buffer for them.
KmRows ==
    { WriterSet(<< >>, k, v)[1] : k \in KmKeys, v \in KmValues }
    \cup { WriterDelete(<< >>, k)[1] : k \in KmKeys }

\* What the disk does to a compaction: nothing, a Write that fails at the
\* row `at` before its first byte, or a Rename that fails.
CompactFaults ==
    { [kind |-> "none", at |-> 0, n |-> 0], [kind |-> "rename", at |-> 0, n |-> 0] }
    \cup { [kind |-> "write", at |-> i, n |-> 0] : i \in 1..MaxFileRows }

RECURSIVE HistoryEntries(_, _)
\* The visits of f.km.walk(nil, ...) with the inner loop over each history:
\* [key, position] for every position of every key, keys in walk order.
HistoryEntries(km, keys) ==
    IF keys = << >> THEN << >>
    ELSE LET history == KeymapGet(km, Head(keys)) IN
         [i \in 1..Len(history) |-> [key |-> Head(keys), position |-> history[i]]]
         \o HistoryEntries(km, Tail(keys))

\* What a visit of the walk of Compact makes of the row it read through
\* f.r (rd) and decoded with f.fmt (d).
KmReadResult(rd, d) ==
    IF rd.err # NoErr
    THEN [err |-> Wrap("walk rows", Wrap("read current row", rd.err)), row |-> d.row]
    ELSE IF d.err # "nil"
    THEN [err |-> << "walk rows", "decode current row", d.err >>, row |-> d.row]
    ELSE [err |-> NoErr, row |-> d.row]

KmDecodeRead(fmt, rd) ==
    KmReadResult(rd, FormatDecodeFrom(fmt, [Op |-> 0, Key |-> << >>, Value |-> << >>],
                                      rd.bytes))

\* The first half of a visit: reads the row at the position and decodes it.
KmReadRow(fmt, db, handle, position) ==
    KmDecodeRead(fmt, ReadAt(handle, db, position[1], position[2]))

\* What bytes appended to the new file do to the state of the walk: the
\* bytes of the new file, newOffset and, as history, the bytes this
\* compaction wrote.
KmAppend(st, bytes) ==
    [st EXCEPT !.compacting = @ \o bytes, !.written = @ \o bytes,
               !.newOffset = @ + Len(bytes)]

\* The second half of a visit, given the row as newFormat encoded it (enc):
\* appends it to the new file and indexes it in the new keymap.
KmWriteEncoded(key, enc, st, fails) ==
    IF enc.err # "nil"
    THEN [err |-> << "walk rows", "encode new row", enc.err >>, st |-> st]
    ELSE IF fails
    THEN [err |-> << "walk rows", "write new row", "EIO" >>, st |-> st]
    ELSE [err |-> NoErr,
          st |-> [KmAppend(st, enc.bytes) EXCEPT !.newKeymap =
                    KeymapSet(@, key, << st.newOffset, Len(enc.bytes) >>)]]

KmWriteRow(newFormat, key, r, st, fails) ==
    IF r.err # NoErr THEN [err |-> r.err, st |-> st]
    ELSE KmWriteEncoded(key, FormatEncode(newFormat, r.row), st, fails)

\* One visit of the walk of Compact.
KmCopyRow(fmt, newFormat, db, handle, entry, st, fails) ==
    KmWriteRow(newFormat, entry.key, KmReadRow(fmt, db, handle, entry.position),
               st, fails)

RECURSIVE KmCompactLoop(_, _, _, _, _, _, _, _)
RECURSIVE KmCompactStep(_, _, _, _, _, _, _, _)
\* The walk of Compact after the i-th visit returned o: it stops at the
\* first error.
KmCompactStep(fmt, newFormat, db, handle, entries, i, o, fault) ==
    IF o.err # NoErr THEN o
    ELSE KmCompactLoop(fmt, newFormat, db, handle, entries, i + 1, o.st, fault)

\* The walk of Compact from the i-th visit on.
KmCompactLoop(fmt, newFormat, db, handle, entries, i, st, fault) ==
    IF i > Len(entries) THEN [err |-> NoErr, st |-> st]
    ELSE KmCompactStep(fmt, newFormat, db, handle, entries, i,
                       KmCopyRow(fmt, newFormat, db, handle, entries[i], st,
                                 fault.kind = "write" /\ fault.at = i),
                       fault)

\* The end of Compact, given what the walk returned (o) and what the
\* rename returned (err when the walk returned nil): on nil the new file is
\* renamed over the log and format, keymap, handles and offset are swapped;
\* on an error the new file stays as it is.
KmCompactDone(newFormat, o, err) ==
    /\ IF err = NoErr
       THEN /\ files' = [db |-> o.st.compacting, compacting |-> Nil]
            /\ handles' = [handles EXCEPT !.fmt = newFormat]
            /\ keydir' = o.st.newKeymap
            /\ woffset' = o.st.newOffset
            /\ hadCompact' = TRUE
       ELSE /\ files' = [files EXCEPT !.compacting = Some(o.st.compacting)]
            /\ UNCHANGED << handles, keydir, woffset, hadCompact >>
    /\ ret' = [op |-> "Compact", kind |-> IF err = NoErr THEN "ok" ELSE "error",
               err |-> err, rows |-> 0, written |-> o.st.written,
               fmt |-> newFormat]

KmCompactRename(newFormat, o, fault) ==
    KmCompactDone(newFormat, o,
                  IF o.err # NoErr THEN o.err
                  ELSE IF fault.kind = "rename" THEN << "swap", "EIO" >>
                  ELSE NoErr)

\* File.Compact(newFormat) as one step: takes the lock, opens
\* path+".compacting" (O_CREATE for the reader, O_APPEND for the writer: a
\* file that is there keeps its bytes), copies every version of every key,
\* renames the new file over the log and swaps. ret holds what Compact
\* returned and the bytes it wrote.
KmCompact(newFormat, fault) ==
    /\ ~hadFatal
    /\ handles.w = "open"
    /\ CanLock(mu)
    /\ KmCompactRename(newFormat,
         KmCompactLoop(handles.fmt, newFormat, files.db, handles.r,
                       HistoryEntries(keydir, KeymapNodeWalk(keydir.nodes, FALSE, << >>)),
                       1,
                       [compacting |-> IF files.compacting = Nil THEN << >>
                                       ELSE files.compacting[1],
                        written |-> << >>, newOffset |-> 0, newKeymap |-> NewKeymap],
                       fault),
         fault)
    /\ UNCHANGED << syncedLen, mu, pc, local, kv, committed, hadFatal >>

\* A new, empty file opened in one of the two Formats.
KmInit ==
    /\ FmtInit
    /\ handles.fmt # "binary"

KmNext ==
    \/ \E rows \in RowSeqs(KmRows, MaxTxRows) :
         /\ Len(committed) + Len(rows) <= MaxFileRows
         /\ FmtReadWrite(rows, FALSE, [kind |-> "none", at |-> 0, n |-> 0,
                                       truncated |-> TRUE])
    \/ \E newFormat \in Formats \ { "binary" }, fault \in CompactFaults :
         /\ Len(HistoryEntries(keydir, KeymapNodeWalk(keydir.nodes, FALSE, << >>)))
              <= MaxFileRows
         /\ KmCompact(newFormat, fault)
         /\ IF files'.compacting = Nil THEN Len(files'.db) <= MaxLog
            ELSE Len(files'.compacting[1]) <= MaxLeftover
    \/ FmtOpen

KmSpec ==
    KmInit /\ [][KmNext]_vars

\* C32 (every compaction starts from an empty .compacting file): when
\* Compact returns nil the log is exactly the bytes that this compaction
\* wrote, and f.woffset is its length.
CompactStartsEmpty ==
    (ret.op = "Compact" /\ ret.kind = "ok") =>
      /\ files.db = ret.written
      /\ woffset = Len(files.db)

----------------------------------------------------------------------------
\* Open on a log that was cut or damaged on disk.

\* The byte that damage puts in the place of another: 'x'.
DamageByte == 120

\* The logs Open finds in the framing fmt: the encodings of at most
\* MaxTxRows rows, whole, cut at any length, or with one byte damaged.
DamagedLogs(fmt) ==
    UNION { LET bytes == FormatEncodeAll(fmt, rows) IN
            { SubSeq(bytes, 1, k) : k \in 0..Len(bytes) }
            \cup { [bytes EXCEPT ![k] = DamageByte] : k \in 1..Len(bytes) }
          : rows \in RowSeqs(KmRows, MaxTxRows) }

\* Such a log at the path, before Open.
DecodeInit ==
    /\ handles \in [r : { "closed" }, w : { "closed" }, fmt : Formats]
    /\ files \in [db : DamagedLogs(handles.fmt), compacting : { Nil }]
    /\ syncedLen = Len(files.db)
    /\ keydir = NewKeymap
    /\ woffset = 0
    /\ mu = [writer |-> 0, readers |-> {}]
    /\ pc = [p \in Procs |-> "idle"]
    /\ local = [p \in Procs |-> NoLocal]
    /\ ret = NoRet
    /\ kv = [k \in Keys |-> Nil]
    /\ committed = << >>
    /\ hadFatal = FALSE
    /\ hadCompact = FALSE

DecodeNext ==
    FmtOpen

DecodeSpec ==
    DecodeInit /\ [][DecodeNext]_vars

\* The Row that the DecodeFrom which ended the loop of Open was handed: the
\* row of the last successful DecodeFrom, a new Row when there was none.
RowBeforeLastDecode ==
    IF ret.decoded = << >> THEN [Op |-> 0, Key |-> << >>, Value |-> << >>]
    ELSE ret.decoded[Len(ret.decoded)].row

\* C33 (decoders mutate their output only on success): when the loop of
\* Open ends on a DecodeFrom that returned an error, in any of the three
\* framings, the Row it was handed has the op, key and value it had before
\* the call.
DecodeKeepsRowOnError ==
    (ret.op = "Open" /\ ret.err # NoErr /\ Head(ret.err) = "decode row") =>
      ret.row = RowBeforeLastDecode

----------------------------------------------------------------------------
\* Claims about the callback of a write transaction.

\* What has, get, count and walk returned on the state a caller locked the
\* engine in.
ReadsBefore(p) ==
    [has |-> [k \in Keys |-> ReaderHas(Pre(p).keydir, k)],
     get |-> [k \in Keys |-> ReaderGet(Pre(p).keydir, Pre(p).files.db, handles.r, k)],
     count |-> ReaderCount(Pre(p).keydir),
     walk |-> ReaderWalk(Pre(p).keydir, << >>, FALSE)]

\* C34 (reads inside a write callback see the pre-transaction state): when
\* the callback of a write transaction has returned, with rows buffered or
\* not, has, get, count and walk on its read handle returned what they
\* return on the state the transaction began in, get returned the values
\* committed before it (no fatal, no compaction, open handles), and the
\* files, the keydir and the write offset are those the transaction began
\* in.
CallbackSeesCommitted ==
    \A p \in Procs :
      (pc[p] = "rw_called" /\ local[p].i = 1) =>
        /\ local[p].seen = Some(ReadsBefore(p))
        /\ << files, keydir, woffset >> = << Pre(p).files, Pre(p).keydir, Pre(p).woffset >>
        /\ (~hadFatal /\ ~hadCompact /\ handles.r = "open") =>
             \A k \in Keys :
               local[p].seen[1].get[k] = [value |-> kv[k], err |-> NoErr]

\* The callback of a write transaction has returned nil after it buffered
\* a Delete of the empty key, over a log in which the empty key is set to
\* "1"; its read handle returned that the key is there.
CallbackSeesCommittedWitness ==
    \E p \in Procs :
      /\ pc[p] = "rw_called" /\ local[p].i = 1 /\ local[p].err = NoErr
      /\ Len(local[p].rows) = 1
      /\ local[p].rows[1].Op = OpDelete /\ local[p].rows[1].Key = << >>
      /\ kv[<< >>] = Some(<< 49 >>)
      /\ local[p].seen[1].has[<< >>]
      /\ local[p].seen[1].count = 1
      /\ ~hadFatal /\ handles.r = "open"

----------------------------------------------------------------------------
\* The engine lock with callers that wait: f.mu, a sync.RWMutex, as Read,
\* ReadWrite, Compact, CopyTo and Close take and release it. In this
\* specification pc[p] is << call, place >>.

\* The calls that take f.mu.Lock() and the call that takes f.mu.RLock().
ExclusiveCalls == { "ReadWrite", "Compact", "CopyTo", "Close" }

SharedCalls == { "Read" }

Idle == << "none", "idle" >>

\* A caller is in Lock behind the writers that called Lock before it
\* (queue), has announced itself and waits for the readers inside to leave
\* (pending), is in RLock behind a writer (blocked), or holds the lock and
\* runs the body of the call, its callback included (inside).
At(p, place) ==
    pc[p][2] = place

\* A writer has announced itself or holds the lock.
WriterPending ==
    \E q \in Procs : pc[q][1] \in ExclusiveCalls /\ pc[q][2] \in { "pending", "inside" }

\* RLock admitting readers whenever no writer holds the lock.
RLockAdmitsBesideWriter(m, pending) ==
    m.writer = 0

\* sync.RWMutex.RLock admits a reader when no writer holds the lock and no
\* writer has announced itself in Lock.
RLockAdmits(m, pending) ==
    m.writer = 0 /\ ~pending

\* A caller calls Read: f.mu.RLock() returns at once or blocks.
CallShared(p) ==
    /\ pc[p] = Idle
    /\ \E call \in SharedCalls :
         IF RLockAdmits(mu, WriterPending)
         THEN /\ pc' = [pc EXCEPT ![p] = << call, "inside" >>]
              /\ mu' = [mu EXCEPT !.readers = @ \cup { p }]
         ELSE /\ pc' = [pc EXCEPT ![p] = << call, "blocked" >>]
              /\ mu' = mu
    /\ ret' = NoRet
    /\ UNCHANGED << files, syncedLen, keydir, woffset, handles, local, kv, committed,
                    hadFatal, hadCompact >>

\* A caller calls ReadWrite, Compact, CopyTo or Close: f.mu.Lock() begins.
CallExclusive(p) ==
    /\ pc[p] = Idle
    /\ \E call \in ExclusiveCalls : pc' = [pc EXCEPT ![p] = << call, "queue" >>]
    /\ ret' = NoRet
    /\ UNCHANGED << files, syncedLen, keydir, woffset, handles, mu, local, kv,
                    committed, hadFatal, hadCompact >>

\* Lock: the caller gets the writers' mutex when no other writer has it,
\* and announces itself to the readers.
LockAnnounce(p) ==
    /\ At(p, "queue")
    /\ ~WriterPending
    /\ pc' = [pc EXCEPT ![p] = << pc[p][1], "pending" >>]
    /\ ret' = NoRet
    /\ UNCHANGED << files, syncedLen, keydir, woffset, handles, mu, local, kv,
                    committed, hadFatal, hadCompact >>

\* Lock returns when the readers that were inside have left.
LockAcquire(p) ==
    /\ At(p, "pending")
    /\ mu.readers = {}
    /\ pc' = [pc EXCEPT ![p] = << pc[p][1], "inside" >>]
    /\ mu' = [mu EXCEPT !.writer = p]
    /\ ret' = NoRet
    /\ UNCHANGED << files, syncedLen, keydir, woffset, handles, local, kv, committed,
                    hadFatal, hadCompact >>

\* The body of an exclusive call ends, by a return or by a panic: the
\* deferred f.mu.Unlock() runs and lets in every reader blocked in RLock.
ReturnExclusive(p) ==
    /\ At(p, "inside")
    /\ pc[p][1] \in ExclusiveCalls
    /\ pc' = [q \in Procs |->
                IF q = p THEN Idle
                ELSE IF pc[q][2] = "blocked" THEN << pc[q][1], "inside" >>
                ELSE pc[q]]
    /\ mu' = [writer |-> 0, readers |-> { q \in Procs : pc[q][2] = "blocked" }]
    /\ ret' = [op |-> pc[p][1], kind |-> "returned", err |-> NoErr, rows |-> 0]
    /\ UNCHANGED << files, syncedLen, keydir, woffset, handles, local, kv, committed,
                    hadFatal, hadCompact >>

\* The callback of Read ends, by a return or by a panic: the deferred
\* f.mu.RUnlock() runs.
ReturnShared(p) ==
    /\ At(p, "inside")
    /\ pc[p][1] \in SharedCalls
    /\ pc' = [pc EXCEPT ![p] = Idle]
    /\ mu' = [mu EXCEPT !.readers = @ \ { p }]
    /\ ret' = [op |-> pc[p][1], kind |-> "returned", err |-> NoErr, rows |-> 0]
    /\ UNCHANGED << files, syncedLen, keydir, woffset, handles, local, kv, committed,
                    hadFatal, hadCompact >>

LockInit ==
    /\ files = [db |-> << >>, compacting |-> Nil]
    /\ syncedLen = 0
    /\ keydir = NewTrieKeydir
    /\ woffset = 0
    /\ handles = [r |-> "open", w |-> "open"]
    /\ mu = [writer |-> 0, readers |-> {}]
    /\ pc = [p \in Procs |-> Idle]
    /\ local = [p \in Procs |-> NoLocal]
    /\ ret = NoRet
    /\ kv = [k \in Keys |-> Nil]
    /\ committed = NewTrieKeydir
    /\ hadFatal = FALSE
    /\ hadCompact = FALSE

LockNext ==
    \E p \in Procs :
      \/ CallShared(p)
      \/ CallExclusive(p)
      \/ LockAnnounce(p)
      \/ LockAcquire(p)
      \/ ReturnExclusive(p)
      \/ ReturnShared(p)

LockSpec ==
    LockInit /\ [][LockNext]_vars

\* Every callback terminates and every unlock wakes its waiters (weak
\* fairness of the returns and of LockAcquire); the writers' mutex hands
\* itself to a waiter that has waited long (strong fairness of
\* LockAnnounce).
LockFairSpec ==
    /\ LockSpec
    /\ \A p \in Procs :
         /\ WF_vars(ReturnExclusive(p))
         /\ WF_vars(ReturnShared(p))
         /\ WF_vars(LockAcquire(p))
         /\ SF_vars(LockAnnounce(p))

\* C35 (progress): every call of Read, ReadWrite, Compact, CopyTo and Close
\* that has begun eventually holds the lock, and eventually returns.
Progress ==
    \A p \in Procs :
      /\ (pc[p] # Idle /\ ~At(p, "inside")) ~> At(p, "inside")
      /\ (pc[p] # Idle) ~> (ret.kind = "returned" /\ pc[p] = Idle)

\* A caller of an exclusive call has announced itself while a reader is
\* inside.
ProgressWitness ==
    \E p, q \in Procs :
      /\ pc[p][1] \in ExclusiveCalls /\ At(p, "pending")
      /\ pc[q] = << "Read", "inside" >>
      /\ mu.readers = { q }

----------------------------------------------------------------------------
\* File.Compact of the engine that closes after the swap: after the Sync of
\* the new file it renames, swaps and then closes f.r and f.w.

\* err = os.Rename(newR.Name(), f.fpath), the swap of keydir, handles and
\* offset, then _ = closeFileRW(f.r, f.w): f.r and f.w are the new handles
\* by then, and both are closed whatever Close returns.
CompactRenameThenClose(p) ==
    /\ pc[p] = "cp_close"
    /\ \E renamed \in BOOLEAN :
         IF renamed
         THEN /\ files' = [db |-> files.compacting[1], compacting |-> Nil]
              /\ syncedLen' = Len(files.compacting[1])
              /\ keydir' = local[p].cleanKeydir
              /\ \E c \in CloseFileRW([r |-> "open", w |-> "open"]) :
                   handles' = c.handles
              /\ woffset' = local[p].cleanOffset
              /\ hadCompact' = TRUE
              /\ Return(p, "Compact", "ok", NoErr)
              /\ Commit(kv)
              /\ UNCHANGED hadFatal
         ELSE /\ UNCHANGED << files, handles >>
              /\ CompactFails(p, Wrap("swap", << "EIO" >>))

CloseAfterSwapNext ==
    \/ \E p \in Procs : RWLock(p)
    \/ \E p \in Procs : RWCallback(p)
    \/ \E p \in Procs : RWAbort(p)
    \/ \E p \in Procs : RWCommitRow(p)
    \/ \E p \in Procs : RWSync(p)
    \/ \E p \in Procs : ReadLock(p)
    \/ \E p \in Procs : ReadReturn(p)
    \/ \E p \in Procs : CompactLock(p)
    \/ \E p \in Procs : CompactInit(p)
    \/ \E p \in Procs : CompactRow(p)
    \/ \E p \in Procs : CompactSync(p)
    \/ \E p \in Procs : CompactRenameThenClose(p)
    \/ \E p \in Procs : CloseLock(p)
    \/ \E p \in Procs : CloseDo(p)
    \/ Open

CloseAfterSwapSpec ==
    Init /\ [][CloseAfterSwapNext]_vars

\* C36 (engine state after a successful compact): when Compact returns nil
\* the reader and writer handles are open on the new log, the write offset
\* is the length of the new log, and get of every key of the keydir reads
\* its row with no error.
CompactLeavesHandlesOpen ==
    (ret.op = "Compact" /\ ret.kind = "ok") =>
      /\ handles.r = "open" /\ handles.w = "open"
      /\ woffset = Len(files.db)
      /\ \A k \in Keys :
           ReaderHas(keydir, k) =>
             /\ ReaderGet(keydir, files.db, handles.r, k).err = NoErr
             /\ ReaderGet(keydir, files.db, handles.r, k).value # Nil

\* C37 (the engine remains usable after a failed compact): whenever Compact
\* returns an error, whichever step failed, on an engine whose handles were
\* open when it was called (they are open before the step, or the step is
\* the rename, which follows a close that succeeded), the reader and writer
\* handles are open and get of every key returns what it returned when the
\* compaction locked the engine.
CompactFailureKeepsHandles ==
    [][\A p \in Procs :
         (/\ Exclusive(p) /\ ret'.op = "Compact" /\ ret'.kind = "error"
          /\ (handles = [r |-> "open", w |-> "open"] \/ pc[p] = "cp_rename")) =>
           /\ handles' = [r |-> "open", w |-> "open"]
           /\ \A k \in Keys :
                ReaderGet(keydir', files'.db, handles'.r, k)
                  = ReaderGet(Pre(p).keydir, Pre(p).files.db, "open", k)]_vars

----------------------------------------------------------------------------
\* LHTIndex (package fidx): the linked hash table with its pointers. A
\* *RowInfo is the index of a node in `heap`, 0 is nil; nodes that nothing
\* points to any more stay in the heap.

\* The bucket counts NewLHTIndex is called with.
BucketCounts == { 1, 2 }

\* The keys put and deleted: "a" and "c" share a bucket of two, "b" has
\* the other.
IdxKeys == { << 97 >>, << 98 >>, << 99 >> }

\* The positions put.
IdxPositions == { << 0, 7 >>, << 7, 9 >> }

\* The most RowInfo an index allocates.
MaxNodes == 3

\* The low byte of the fnv-1a constants: offset 14695981039346656037 and
\* prime 1099511628211.
FnvOffsetLow == 37

FnvPrimeLow == 179

RECURSIVE XorBits(_, _, _)
\* a ^ b on the low n bits.
XorBits(a, b, n) ==
    IF n = 0 THEN 0
    ELSE ((a + b) % 2) + 2 * XorBits(a \div 2, b \div 2, n - 1)

RECURSIVE HashLow(_, _)
\* The low byte of the 64-bit hash of hashFNV1aIndex: for every char,
\* hash *= prime and hash ^= uint64(char), from hash = offset. The low byte
\* of a product and of an exclusive or depends on the low bytes only.
HashLow(hash, key) ==
    IF key = << >> THEN hash
    ELSE HashLow(XorBits((hash * FnvPrimeLow) % 256, Head(key), 8), Tail(key))

\* LHTIndex.hashFNV1aIndex: int(hash % uint64(len(idx.buckets))), for a
\* bucket count that divides 256.
IdxHashIndex(idx, key) ==
    HashLow(FnvOffsetLow, key) % idx.numBuckets

\* NewLHTIndex(numBuckets)
NewIdx(numBuckets) ==
    [Count |-> 0, Oldest |-> 0, Latest |-> 0, numBuckets |-> numBuckets,
     buckets |-> [b \in 0..(numBuckets - 1) |-> 0], heap |-> << >>]

\* A search of a bucket chain that looks at the first row only.
IdxFindFirstOnly(idx, row, previousInBucket, key) ==
    IF row # 0 /\ idx.heap[row].Key = key
    THEN [row |-> row, previousInBucket |-> previousInBucket]
    ELSE [row |-> 0, previousInBucket |-> row]

RECURSIVE IdxFind(_, _, _, _)
\* for row := root; row != nil; row, previousInBucket = row.nextInBucket, row:
\* the row with the key and the row before it on the chain, or nil and the
\* last row of the chain.
IdxFind(idx, row, previousInBucket, key) ==
    IF row = 0 THEN [row |-> 0, previousInBucket |-> previousInBucket]
    ELSE IF idx.heap[row].Key = key
    THEN [row |-> row, previousInBucket |-> previousInBucket]
    ELSE IdxFind(idx, idx.heap[row].nextInBucket, row, key)

\* appendChronologically(idx, row)
AppendChronologically(idx, row) ==
    [idx EXCEPT !.heap = IF idx.Oldest = 0 \/ idx.Latest = 0
                         THEN [@ EXCEPT ![row].Previous = idx.Latest]
                         ELSE [@ EXCEPT ![row].Previous = idx.Latest,
                                        ![idx.Latest].Next = row],
                !.Oldest = IF idx.Oldest = 0 \/ idx.Latest = 0 THEN row ELSE @,
                !.Latest = row]

\* An unlink that leaves idx.Latest as it is.
UnlinkChronologicallyKeepsLatest(idx, row) ==
    [idx EXCEPT !.Oldest = IF idx.heap[row].Previous = 0 THEN idx.heap[row].Next ELSE @,
                !.heap = IF idx.heap[row].Previous = 0 THEN @
                         ELSE [@ EXCEPT ![idx.heap[row].Previous].Next = idx.heap[row].Next]]

\* The second half of unlinkChronologically: if row.Next == nil ... else ...
UnlinkNext(idx, row) ==
    IF idx.heap[row].Next = 0
    THEN [idx EXCEPT !.Latest = idx.heap[row].Previous]
    ELSE [idx EXCEPT !.heap[idx.heap[row].Next].Previous = idx.heap[row].Previous]

\* unlinkChronologically(idx, row)
UnlinkChronologically(idx, row) ==
    UnlinkNext(UnlinkChronologicallyKeepsLatest(idx, row), row)

\* LHTIndex.Put once the chain is searched (f): the row found gets the
\* position; otherwise a new row is counted, appended to the bucket and
\* appended to the chronological list.
IdxPutFound(idx, key, p, bucketIndex, f, new) ==
    IF f.row # 0 THEN [idx EXCEPT !.heap[f.row].Position = p]
    ELSE AppendChronologically(
           [idx EXCEPT !.Count = @ + 1,
                       !.heap = IF f.previousInBucket = 0
                                THEN Append(@, new)
                                ELSE Append([@ EXCEPT ![f.previousInBucket].nextInBucket
                                                        = Len(idx.heap) + 1], new),
                       !.buckets[bucketIndex] = IF f.previousInBucket = 0
                                                THEN Len(idx.heap) + 1 ELSE @],
           Len(idx.heap) + 1)

\* LHTIndex.Put
IdxPut(idx, key, p) ==
    IdxPutFound(idx, key, p, IdxHashIndex(idx, key),
                IdxFind(idx, idx.buckets[IdxHashIndex(idx, key)], 0, key),
                [Key |-> key, Position |-> p, Next |-> 0, Previous |-> 0,
                 nextInBucket |-> 0])

\* LHTIndex.Delete once the chain is searched (f): the row found is
\* uncounted, taken off the bucket and unlinked.
IdxDeleteFound(idx, bucketIndex, f) ==
    IF f.row = 0 THEN idx
    ELSE UnlinkChronologically(
           [idx EXCEPT !.Count = @ - 1,
                       !.buckets[bucketIndex] = IF f.previousInBucket = 0
                                                THEN idx.heap[f.row].nextInBucket ELSE @,
                       !.heap = IF f.previousInBucket = 0 THEN @
                                ELSE [@ EXCEPT ![f.previousInBucket].nextInBucket
                                                 = idx.heap[f.row].nextInBucket]],
           f.row)

\* LHTIndex.Delete
IdxDelete(idx, key) ==
    IdxDeleteFound(idx, IdxHashIndex(idx, key),
                   IdxFind(idx, idx.buckets[IdxHashIndex(idx, key)], 0, key))

\* LHTIndex.Get: the row, 0 for nil.
IdxGet(idx, key) ==
    IdxFind(idx, idx.buckets[IdxHashIndex(idx, key)], 0, key).row

RECURSIVE IdxWalkNext(_, _, _)
\* for row := idx.Oldest; row != nil; row = row.Next: the keys visited, at
\* most n of them.
IdxWalkNext(idx, row, n) ==
    IF row = 0 \/ n = 0 THEN << >>
    ELSE << idx.heap[row].Key >> \o IdxWalkNext(idx, idx.heap[row].Next, n - 1)

RECURSIVE IdxWalkPrevious(_, _, _)
\* for row := idx.Latest; row != nil; row = row.Previous
IdxWalkPrevious(idx, row, n) ==
    IF row = 0 \/ n = 0 THEN << >>
    ELSE << idx.heap[row].Key >> \o IdxWalkPrevious(idx, idx.heap[row].Previous, n - 1)

\* idx.Put(key, p). As history, kv holds the position last put for every
\* key not deleted since, and committed the keys not deleted since they were
\* created, in the order of their creation.
IdxPutCall(key, p) ==
    /\ IdxGet(keydir, key) = 0 => Len(keydir.heap) < MaxNodes
    /\ keydir' = IdxPut(keydir, key, p)
    /\ kv' = [kv EXCEPT ![key] = Some(p)]
    /\ committed' = IF kv[key] = Nil THEN Append(committed, key) ELSE committed
    /\ ret' = [op |-> "Put", kind |-> "ok", err |-> NoErr, rows |-> 0, key |-> key]
    /\ UNCHANGED << files, syncedLen, woffset, handles, mu, pc, local, hadFatal,
                    hadCompact >>

\* idx.Delete(key)
IdxDeleteCall(key) ==
    /\ keydir' = IdxDelete(keydir, key)
    /\ kv' = [kv EXCEPT ![key] = Nil]
    /\ committed' = SelectSeq(committed, LAMBDA k : k # key)
    /\ ret' = [op |-> "Delete", kind |-> "ok", err |-> NoErr, rows |-> 0, key |-> key]
    /\ UNCHANGED << files, syncedLen, woffset, handles, mu, pc, local, hadFatal,
                    hadCompact >>

\* idx := NewLHTIndex(numBuckets)
IdxInit ==
    /\ keydir \in { NewIdx(n) : n \in BucketCounts }
    /\ kv = [k \in IdxKeys |-> Nil]
    /\ committed = << >>
    /\ files = [db |-> << >>, compacting |-> Nil]
    /\ syncedLen = 0
    /\ woffset = 0
    /\ handles = [r |-> "open", w |-> "open"]
    /\ mu = [writer |-> 0, readers |-> {}]
    /\ pc = [p \in Procs |-> "idle"]
    /\ local = [p \in Procs |-> NoLocal]
    /\ ret = NoRet
    /\ hadFatal = FALSE
    /\ hadCompact = FALSE

IdxNext ==
    \/ \E key \in IdxKeys, p \in IdxPositions : IdxPutCall(key, p)
    \/ \E key \in IdxKeys : IdxDeleteCall(key)

IdxSpec ==
    IdxInit /\ [][IdxNext]_vars

\* C38 (LHTIndex map contract): with one bucket and with two, after any
\* sequence of Put and Delete, Get(k) is the row with key k and the position
\* of the last Put(k) when no Delete(k) followed it, nil otherwise, and Count
\* is the number of keys for which Get is not nil.
IndexMapContract ==
    /\ \A k \in IdxKeys :
         IF kv[k] = Nil THEN IdxGet(keydir, k) = 0
         ELSE /\ IdxGet(keydir, k) # 0
              /\ keydir.heap[IdxGet(keydir, k)].Key = k
              /\ keydir.heap[IdxGet(keydir, k)].Position = kv[k][1]
    /\ keydir.Count = Cardinality({ k \in IdxKeys : IdxGet(keydir, k) # 0 })

\* With two buckets, "a" and "c", which share one, were put, "a" was
\* deleted and put again, behind "c" on the chain, and "c" was put a second
\* time with another position.
IndexMapContractWitness ==
    /\ ret.op = "Put" /\ ret.key = << 99 >>
    /\ keydir.numBuckets = 2
    /\ committed = << << 99 >>, << 97 >> >>
    /\ keydir.Count = 2
    /\ Len(keydir.heap) = 3
    /\ keydir.heap[2].Key = << 99 >> /\ keydir.heap[2].nextInBucket = 3
    /\ kv[<< 99 >>] = Some(<< 7, 9 >>)

RECURSIVE Reverse(_)
Reverse(q) ==
    IF q = << >> THEN << >> ELSE Append(Reverse(Tail(q)), Head(q))

\* C39 (LHTIndex chronological list): following Next from Oldest visits the
\* live keys, each once, in the order of their creation, following Previous
\* from Latest visits them in the reverse order, and Oldest and Latest are
\* nil when no key is live.
IndexChronology ==
    /\ IdxWalkNext(keydir, keydir.Oldest, MaxNodes + 1) = committed
    /\ IdxWalkPrevious(keydir, keydir.Latest, MaxNodes + 1) = Reverse(committed)
    /\ committed = << >> => (keydir.Oldest = 0 /\ keydir.Latest = 0)

\* "a" and "b" were created, "a" was deleted and created again, and "b",
\* the oldest by then, was put a second time.
IndexChronologyWitness ==
    /\ ret.op = "Put" /\ ret.key = << 98 >>
    /\ committed = << << 98 >>, << 97 >> >>
    /\ Len(keydir.heap) = 3
    /\ keydir.heap[1].Key = << 97 >>
    /\ keydir.Oldest = 2 /\ keydir.Latest = 3

----------------------------------------------------------------------------
\* Versions (rw.go): the history Reader.Get returns in the history-keeping
\* engine.

\* Versions.Length
VersionsLength(history) ==
    Len(history)

\* The end of Versions.Value, given what ReadAt returned (rd) and what
\* DecodeFrom returned (d): [value, err].
VersionsDecoded(rd, d) ==
    IF rd.err # NoErr THEN [value |-> Nil, err |-> Wrap("read row", rd.err)]
    ELSE IF d.err # "nil" THEN [value |-> Nil, err |-> << "decode row", d.err >>]
    ELSE [value |-> Some(d.row.Value), err |-> NoErr]

VersionsRead(fmt, rd) ==
    VersionsDecoded(rd, FormatDecodeFrom(fmt, [Op |-> 0, Key |-> << >>, Value |-> << >>],
                                         rd.bytes))

\* Versions.Value(i): nil and no error on an empty history, an error on an
\* index out of range, the value of the row read at the i-th position
\* otherwise.
VersionsValue(history, data, handle, fmt, i) ==
    IF Len(history) = 0 THEN [value |-> Nil, err |-> NoErr]
    ELSE IF i < 0 \/ i > Len(history) - 1
    THEN [value |-> Nil, err |-> << "invalid history index" >>]
    ELSE VersionsRead(fmt, ReadAt(handle, data, history[i + 1][1], history[i + 1][2]))

\* Versions.CurrentValue
VersionsCurrentValue(history, data, handle, fmt) ==
    VersionsValue(history, data, handle, fmt, VersionsLength(history) - 1)

RECURSIVE SetsSinceDelete(_, _)
\* The values of the Set rows of the key since its last Delete row, oldest
\* first.
SetsSinceDelete(rows, key) ==
    IF rows = << >> THEN << >>
    ELSE LET row == rows[Len(rows)]
             before == SubSeq(rows, 1, Len(rows) - 1)
         IN IF row.Key # key THEN SetsSinceDelete(before, key)
            ELSE IF row.Op = OpSet THEN Append(SetsSinceDelete(before, key), row.Value)
            ELSE << >>

\* What Length, Value and CurrentValue return on the history Get(key)
\* returns, when the committed Sets since the last Delete have the values
\* `sets`.
VersionsAgree(history, sets) ==
    /\ VersionsLength(history) = Len(sets)
    /\ \A i \in 0..(Len(sets) - 1) :
         VersionsValue(history, files.db, handles.r, handles.fmt, i)
           = [value |-> Some(sets[i + 1]), err |-> NoErr]
    /\ VersionsCurrentValue(history, files.db, handles.r, handles.fmt)
         = IF sets = << >> THEN [value |-> Nil, err |-> NoErr]
           ELSE [value |-> Some(sets[Len(sets)]), err |-> NoErr]
    /\ \A i \in { -1, Len(sets) } :
         VersionsValue(history, files.db, handles.r, handles.fmt, i)
           = IF sets = << >> THEN [value |-> Nil, err |-> NoErr]
             ELSE [value |-> Nil, err |-> << "invalid history index" >>]

\* C40 (version history): on an open engine, after any transactions,
\* compactions and reopenings, for every key K the history Get(K) returns
\* has as many versions as Set(K) rows were committed since the last
\* Delete(K), Value(i) is the value of the i-th oldest of them and
\* CurrentValue the newest, an index out of range is an error, and on an
\* empty history Value and CurrentValue return nil and no error.
VersionHistory ==
    (handles.r = "open" /\ ~hadFatal) =>
      \A key \in KmKeys :
        VersionsAgree(KeymapGet(keydir, key), SetsSinceDelete(committed, key))

====
